---- MODULE Spec2Model ----
(***************************************************************************)
(* A model of the spur railway simulator: the simpy event queue that      *)
(* drives the train processes (spur/core/train.py), the capacity-gated    *)
(* SpurResource with its admission predicate (spur/core/base.py), the     *)
(* component occupant sets, the BlockExclusiveZone collection             *)
(* (spur/core/collection.py) and the lazily linked tours                  *)
(* (spur/core/tour.py, spur/core/route.py).                               *)
(***************************************************************************)
EXTENDS Integers, Sequences, FiniteSets, TLC

\* ---------------------------------------------------------------------
\* Bounds of the model
\* ---------------------------------------------------------------------
NumTrains == 3
MaxTime == 14
MaxJitter == 1

Trains == 1..NumTrains

\* ---------------------------------------------------------------------
\* The networks. Line 1: four TimedTrack components A, B, C, D, two of
\* them in one BlockExclusiveZone, and the branch H that joins the line
\* between C and D. Line 3: the TimedTrack P, then the MultiTrackStation S
\* or the DynamicHeadwayStation Y, then the TimedTrack Q. Line 2: the TimedTrack components E, F
\* and G in a row, with the MultiBlockTrack M between E and F.
\* ---------------------------------------------------------------------
NoTime == -1
NoComp == "none"
NoZone == "none"
NoSeg == <<0, 0, 0>>
URGENT == TRUE
NORMAL == FALSE

NoTour == 0

NoAgent == 0

Comps == {"A", "B", "C", "D", "E", "F", "G", "H", "M", "P", "Q", "S", "Y"}
Zones == {"Z"}

TraversalTime(c) ==
  CASE c = "A" -> 2 [] c = "B" -> 1 [] c = "C" -> 1 [] c = "D" -> 1
    [] c = "E" -> 1 [] c = "F" -> 2 [] c = "G" -> 2 [] c = "H" -> 1
    [] c = "P" -> 1 [] c = "Q" -> 1 [] OTHER -> 6

\* the end nodes of each component in the network graph
\* (Model.component_dictionary)
NodeU(c) ==
  CASE c = "A" -> "n0" [] c = "B" -> "n1" [] c = "C" -> "n2" [] c = "D" -> "n3"
    [] c = "E" -> "e0" [] c = "M" -> "m0" [] c = "F" -> "m1" [] c = "H" -> "n5"
    [] OTHER -> "m2"

NodeV(c) ==
  CASE c = "A" -> "n1" [] c = "B" -> "n2" [] c = "C" -> "n3" [] c = "D" -> "n4"
    [] c = "E" -> "m0" [] c = "M" -> "m1" [] c = "F" -> "m2" [] c = "H" -> "n3"
    [] OTHER -> "m3"

IsMultiBlock(c) == c = "M"

IsMultiTrackStation(c) == c = "S"

IsDynamicHeadwayStation(c) == c = "Y"

\* NoJitter.jitter() returns 0, UniformJitter(0, MaxJitter).jitter() any
\* integer of the closed range
JitterValues(c) == IF c = "B" THEN 0..MaxJitter ELSE {0}

CollectionOf(c) == IF c \in {"B", "C"} THEN "Z" ELSE NoZone

\* ---------------------------------------------------------------------
\* Tours: a tour is a list of routes, a route a list of route segments
\* ---------------------------------------------------------------------
RouteSegment(c, a, d) == [component |-> c, arrival |-> a, departure |-> d]

TourRoutes ==
  << \* 1: the whole line, scheduled arrival at A and departure from D
     << << RouteSegment("A", 1, NoTime), RouteSegment("B", NoTime, NoTime),
           RouteSegment("C", NoTime, NoTime), RouteSegment("D", NoTime, 8) >> >>,
     \* 2: starts and ends inside the zone
     << << RouteSegment("B", NoTime, NoTime), RouteSegment("C", NoTime, 5) >> >>,
     \* 3: two routes bridged at B, the later route holds B until 6
     << << RouteSegment("A", NoTime, NoTime), RouteSegment("B", NoTime, NoTime) >>,
        << RouteSegment("B", NoTime, 6), RouteSegment("D", NoTime, NoTime) >> >>,
     \* 4: enters the zone through C
     << << RouteSegment("C", 2, NoTime), RouteSegment("D", NoTime, NoTime) >> >>,
     \* 5: two tracks of capacity 1 in series
     << << RouteSegment("F", NoTime, NoTime), RouteSegment("G", NoTime, NoTime) >> >>,
     \* 6, 7, 8: through the MultiBlockTrack from u to v, one after the other
     << << RouteSegment("E", NoTime, NoTime), RouteSegment("M", NoTime, NoTime),
           RouteSegment("F", NoTime, NoTime) >> >>,
     << << RouteSegment("E", 1, NoTime), RouteSegment("M", NoTime, NoTime),
           RouteSegment("F", NoTime, NoTime) >> >>,
     << << RouteSegment("E", 3, NoTime), RouteSegment("M", NoTime, NoTime),
           RouteSegment("F", NoTime, NoTime) >> >>,
     \* 9: through the MultiBlockTrack from v to u
     << << RouteSegment("F", NoTime, NoTime), RouteSegment("M", NoTime, NoTime) >> >>,
     \* 10: from the branch into the zone through C
     << << RouteSegment("H", 2, NoTime), RouteSegment("C", NoTime, NoTime),
           RouteSegment("D", NoTime, NoTime) >> >>,
     \* 11: stops at the station S until 5
     << << RouteSegment("P", NoTime, NoTime), RouteSegment("S", NoTime, 5),
           RouteSegment("Q", NoTime, NoTime) >> >>,
     \* 12: passes the station S without stopping
     << << RouteSegment("P", NoTime, NoTime), RouteSegment("S", NoTime, NoTime),
           RouteSegment("Q", NoTime, NoTime) >> >>,
     \* 13: starts with a stop at S
     << << RouteSegment("S", NoTime, 3), RouteSegment("Q", NoTime, NoTime) >> >>,
     \* 14: ends with a stop at S
     << << RouteSegment("P", NoTime, NoTime), RouteSegment("S", NoTime, 5) >> >>,
     \* 15: through the station Y
     << << RouteSegment("P", 1, NoTime), RouteSegment("Y", NoTime, NoTime),
           RouteSegment("Q", NoTime, NoTime) >> >>
  >>

TourIds == 1..Len(TourRoutes)

TourLine(T) ==
  IF TourRoutes[T][1][1].component \in {"A", "B", "C", "D", "H"} THEN "line1"
  ELSE IF TourRoutes[T][1][1].component \in {"P", "S", "Y"} THEN "line3" ELSE "line2"

\* the tours of each network
LineTours == { { T \in TourIds : TourLine(T) = l } : l \in {"line1", "line2"} }

\* the tours of the line with the stations
StationTours == { T \in TourIds : TourLine(T) = "line3" }

SegIds == UNION { UNION { { <<T, r, i>> : i \in 1..Len(TourRoutes[T][r]) }
                          : r \in 1..Len(TourRoutes[T]) } : T \in TourIds }

SegComp(s) == TourRoutes[s[1]][s[2]][s[3]].component
SegArrival(s) == TourRoutes[s[1]][s[2]][s[3]].arrival
SegPrev(s) == IF s[3] > 1 THEN <<s[1], s[2], s[3] - 1>> ELSE NoSeg
InitNext(s) == IF s[3] < Len(TourRoutes[s[1]][s[2]]) THEN <<s[1], s[2], s[3] + 1>> ELSE NoSeg
InitDeparture(s) == TourRoutes[s[1]][s[2]][s[3]].departure
TourNext(T, ts) == IF ts < Len(TourRoutes[T]) THEN ts + 1 ELSE 0

\* ---------------------------------------------------------------------
\* State
\* ---------------------------------------------------------------------
VARIABLES
  now,          \* Environment.now
  queue,        \* the environment's event queue, ordered by (time, priority, insertion)
  started,      \* Model.start() has run
  crashed,      \* an exception left Environment.step(): the run is aborted
  tourOf,       \* the tour each train was created with
  pc,           \* where each train's run() generator is suspended
  cur,          \* Agent._current_segment
  seg,          \* the loop variable `segment` of Train.run
  prevReq,      \* the local prev_req of Train.run: the component whose resource issued it
  gen,          \* the suspended Tour.traverse() generator of each train
  segNext,      \* RouteSegment.next
  segDeparture, \* RouteSegment.departure
  users,        \* SpurResource.users, the agents of the granted requests
  putQueue,     \* SpurResource.put_queue, the agents of the pending requests
  agents,       \* BaseComponent._agents
  occupied,     \* BlockExclusiveZone.occupied
  waitQueue,    \* BlockExclusiveZone.wait_queue
  putLog,       \* the _do_put evaluations of the last step, with the state each one saw
  running,      \* Model.run(until) has been called and has not returned
  agentLog,     \* the IN and OUT records each train wrote to its agent log
  yielded,      \* the segments each train's Tour.traverse() has yielded so far
  lastJitter,   \* the jitter drawn for each train's last do()
  numTracks,    \* MultiBlockTrack._num_tracks of M
  blocks,       \* MultiBlockTrack._blocks of M: the agent in each block of each track
  trackDirections,  \* MultiBlockTrack._track_directions of M: 1, -1, or 0 for None
  trackAssignments, \* MultiBlockTrack._track_assignments of M, 0 for no entry
  doLocal,      \* the locals of each train's suspended MultiBlockTrack.do()
  stoppingTracks,    \* MultiTrackStation._stopping_tracks of S
  bypassTracks,      \* MultiTrackStation._bypass_tracks of S
  stationAssign,     \* MultiTrackStation._track_assignments of S
  previousTrainTime, \* DynamicHeadwayStation._previous_train_time of Y
  lastDwell,         \* the time of the timeout of each train's last station do()
  trainReg,     \* Model._trains while a project is loaded: the uids in insertion order
  tourReg,      \* Model._tours while a project is loaded: name -> tour segments
  routeSegs,    \* Route.segments of the routes of each tour in Model._tours
  tourSegs,     \* Tour.tour_segments of a tour that routes are appended to
  raised,       \* the exception the last loading call ended with, or "none"
  lastOp,       \* the last loading call and its arguments
  built,         \* the last component constructor call, its arguments and the exception it ended with
  routeObj,     \* a Route under construction: Route.segments and the RouteSegment objects made for it
  tourObj,      \* a Tour built with insert: Tour.tour_segments and the TourSegment objects made for it
  compObj      \* a TimedTrack outside a run: its __dict__, the last call on it and what the call returned or raised

\* the registries of a model while a project is loaded
registryVars == << trainReg, tourReg, routeSegs, tourSegs, raised, lastOp >>

\* the objects built outside a run
buildVars == << built, routeObj, tourObj, compObj >>

\* the state outside a run
loadVars == << registryVars, buildVars >>

\* the state of the stations
stationVars == << stoppingTracks, bypassTracks, stationAssign, previousTrainTime, lastDwell >>

\* the state of a run
runVars == << now, queue, started, crashed, tourOf, pc, cur, seg, prevReq, gen, segNext,
              segDeparture, users, putQueue, agents, occupied, waitQueue, putLog,
              running, agentLog, yielded, lastJitter, numTracks, blocks,
              trackDirections, trackAssignments, doLocal, stoppingTracks, bypassTracks,
              stationAssign, previousTrainTime, lastDwell >>

vars == << now, queue, started, crashed, tourOf, pc, cur, seg, prevReq, gen, segNext,
           segDeparture, users, putQueue, agents, occupied, waitQueue, putLog,
           running, agentLog, yielded, lastJitter, numTracks, blocks, trackDirections,
           trackAssignments, doLocal, stoppingTracks, bypassTracks, stationAssign,
           previousTrainTime, lastDwell, trainReg, tourReg, routeSegs, tourSegs, raised,
           lastOp, buildVars >>

\* MultiBlockTrack._num_blocks of M
NumBlocks == 3

\* the values of MultiBlockTrack._num_tracks that M is built with
TrackCounts == {2, 4}

\* the tracks S is built with
NumStoppingTracks == 1

NumBypassTracks == 2

\* MultiTrackStation._bypass_time of S
BypassTime == 1

\* the values of round(burr.rvs(...) + jitter) drawn for a stop at S
StationDwells == {1, 2}

\* no entry in MultiTrackStation._track_assignments
NoTrack == [kind |-> "", index |-> 0]

\* the parameters Y is built with
FirstTrainDwell == 3

Intercept == 1

BoardingRate == 1

AlightingRate == 1

BoardingSlope == 1

AlightingSlope == 0

\* the locals of MultiBlockTrack.do(): the assigned track, its direction,
\* the loop variable b, and whether the generator is suspended on the
\* train's waiting event
NoLocals == [track |-> 0, dir |-> 0, b |-> 0, wait |-> "no"]

\* the capacity of each component's resource; a MultiBlockTrack has one
\* slot per block
Capacity(c) ==
  CASE c = "B" -> 2 [] c = "E" -> 3 [] c = "M" -> numTracks * NumBlocks
    [] c = "S" -> NumStoppingTracks + NumBypassTracks [] OTHER -> 1

\* the mutable state as one record, threaded through the calls of a handler;
\* err is set while an exception propagates
World ==
  [ now |-> now, queue |-> queue, pc |-> pc, cur |-> cur, seg |-> seg, prevReq |-> prevReq,
    gen |-> gen, segNext |-> segNext, segDeparture |-> segDeparture, users |-> users,
    putQueue |-> putQueue, agents |-> agents, occupied |-> occupied,
    waitQueue |-> waitQueue, putLog |-> << >>, err |-> FALSE, crashed |-> crashed,
    agentLog |-> agentLog, yielded |-> yielded, lastJitter |-> lastJitter,
    blocks |-> blocks, trackDirections |-> trackDirections,
    trackAssignments |-> trackAssignments, doLocal |-> doLocal,
    stoppingTracks |-> stoppingTracks, bypassTracks |-> bypassTracks,
    stationAssign |-> stationAssign, previousTrainTime |-> previousTrainTime,
    lastDwell |-> lastDwell ]

Install(w) ==
  /\ now' = w.now
  /\ queue' = w.queue
  /\ crashed' = w.crashed
  /\ pc' = w.pc
  /\ cur' = w.cur
  /\ seg' = w.seg
  /\ prevReq' = w.prevReq
  /\ gen' = w.gen
  /\ segNext' = w.segNext
  /\ segDeparture' = w.segDeparture
  /\ users' = w.users
  /\ putQueue' = w.putQueue
  /\ agents' = w.agents
  /\ occupied' = w.occupied
  /\ waitQueue' = w.waitQueue
  /\ putLog' = w.putLog
  /\ agentLog' = w.agentLog
  /\ yielded' = w.yielded
  /\ lastJitter' = w.lastJitter
  /\ blocks' = w.blocks
  /\ trackDirections' = w.trackDirections
  /\ trackAssignments' = w.trackAssignments
  /\ doLocal' = w.doLocal
  /\ stoppingTracks' = w.stoppingTracks
  /\ bypassTracks' = w.bypassTracks
  /\ stationAssign' = w.stationAssign
  /\ previousTrainTime' = w.previousTrainTime
  /\ lastDwell' = w.lastDwell
  /\ UNCHANGED << started, tourOf, running, numTracks >>
  /\ UNCHANGED loadVars

\* ---------------------------------------------------------------------
\* The event queue (simpy Environment.schedule / step)
\* ---------------------------------------------------------------------
Event(t, u, k, tr, c) == [time |-> t, urgent |-> u, kind |-> k, tr |-> tr, comp |-> c]

\* events are ordered by (time, priority, insertion order): e, already in
\* the queue, stays ahead of the new event f
NotAfter(e, f) == e.time < f.time \/ (e.time = f.time /\ (e.urgent \/ ~f.urgent))

Schedule(w, ev) ==
  LET q == w.queue
      k == Cardinality({ i \in 1..Len(q) : NotAfter(q[i], ev) })
  IN [w EXCEPT !.queue = SubSeq(q, 1, k) \o << ev >> \o SubSeq(q, k + 1, Len(q))]

RemoveFirst(s, x) ==
  IF \E i \in 1..Len(s) : s[i] = x
  THEN LET k == CHOOSE i \in 1..Len(s) : s[i] = x /\ \A j \in 1..(i - 1) : s[j] # x
       IN SubSeq(s, 1, k - 1) \o SubSeq(s, k + 1, Len(s))
  ELSE s

Contains(s, x) == \E i \in 1..Len(s) : s[i] = x

Count(s, x) == Cardinality({ i \in 1..Len(s) : s[i] = x })

\* ---------------------------------------------------------------------
\* BlockExclusiveZone (spur/core/collection.py)
\* ---------------------------------------------------------------------
\* the agent's current segment lies in zone z
AgentInZone(w, t, z) == w.cur[t] # NoSeg /\ CollectionOf(SegComp(w.cur[t])) = z

\* the side effect of BlockExclusiveZone.can_accept_agent: an agent that
\* comes from outside is put on the wait queue unless it is there already
ZoneEnqueue(w, z, t) ==
  IF AgentInZone(w, t, z) \/ Contains(w.waitQueue[z], t)
  THEN w
  ELSE [w EXCEPT !.waitQueue[z] = Append(@, t)]

\* the value of BlockExclusiveZone.can_accept_agent, after its enqueue
ZoneCanAccept(w, z, t) ==
  \/ AgentInZone(w, t, z)
  \/ (~w.occupied[z] /\ w.waitQueue[z] # << >> /\ Head(w.waitQueue[z]) = t)

\* an accept_agent that leaves the admitted train on the wait queue
ZoneAcceptKeepQueued(w, z, t) ==
  IF AgentInZone(w, t, z)
  THEN w
  ELSE IF ~w.occupied[z] /\ w.waitQueue[z] # << >> /\ Head(w.waitQueue[z]) = t
       THEN [w EXCEPT !.occupied[z] = TRUE]
       ELSE [w EXCEPT !.err = TRUE]

ZoneAcceptAgent(w, z, t) ==
  IF AgentInZone(w, t, z)
  THEN w
  ELSE IF ~w.occupied[z] /\ w.waitQueue[z] # << >> /\ Head(w.waitQueue[z]) = t
       THEN [w EXCEPT !.waitQueue[z] = Tail(@), !.occupied[z] = TRUE]
       ELSE [w EXCEPT !.err = TRUE]

\* ---------------------------------------------------------------------
\* BaseComponent and SpurResource (spur/core/base.py)
\* ---------------------------------------------------------------------
CanAcceptEffect(w, c, t) ==
  IF CollectionOf(c) = NoZone THEN w ELSE ZoneEnqueue(w, CollectionOf(c), t)

CanAcceptAgent(w, c, t) ==
  IF CollectionOf(c) = NoZone THEN TRUE ELSE ZoneCanAccept(w, CollectionOf(c), t)

AcceptAgent(w, c, t) ==
  LET Add(w1) == IF w1.err THEN w1 ELSE [w1 EXCEPT !.agents[c] = @ \cup {t}]
  IN Add(IF CollectionOf(c) = NoZone THEN w ELSE ZoneAcceptAgent(w, CollectionOf(c), t))

\* ---------------------------------------------------------------------
\* MultiBlockTrack (spur/core/component.py): admission
\* ---------------------------------------------------------------------
\* ceil(traversal_time / num_blocks)
BlockTraversalTime(c) == (TraversalTime(c) + NumBlocks - 1) \div NumBlocks

EntryBlock(d) == IF d = 1 THEN 1 ELSE NumBlocks

ExitBlock(d) == IF d = 1 THEN NumBlocks ELSE 1

Nodes(c) == IF c = NoComp THEN {} ELSE {NodeU(c), NodeV(c)}

\* the neighbours that _get_travel_direction reads from the agent's
\* current segment: the component of that segment, and the component two
\* segments after it
PrevComponent(w, t) == IF w.cur[t] = NoSeg THEN NoComp ELSE SegComp(w.cur[t])

SegAfter(w, s) == IF s = NoSeg THEN NoSeg ELSE w.segNext[s]

NextComponent(w, t) ==
  IF SegAfter(w, SegAfter(w, w.cur[t])) = NoSeg THEN NoComp
  ELSE SegComp(SegAfter(w, SegAfter(w, w.cur[t])))

\* the decision of _get_travel_direction for a component with end nodes u
\* and v: 1 from u to v, -1 from v to u, 0 where the code raises
Direction(prevC, nextC, u, v) ==
  CASE prevC # NoComp /\ nextC # NoComp /\ u \in Nodes(prevC) /\ v \in Nodes(nextC) -> 1
    [] prevC # NoComp /\ nextC # NoComp /\ v \in Nodes(prevC) /\ u \in Nodes(nextC) -> -1
    [] OTHER ->
         CASE prevC = NoComp /\ v \in Nodes(nextC) -> 1
           [] prevC = NoComp /\ u \in Nodes(nextC) -> -1
           [] OTHER ->
                CASE nextC = NoComp /\ u \in Nodes(prevC) -> 1
                  [] nextC = NoComp /\ v \in Nodes(prevC) -> -1
                  [] OTHER -> 0

GetTravelDirection(w, c, t) ==
  Direction(PrevComponent(w, t), NextComponent(w, t), NodeU(c), NodeV(c))

\* _count_empty_from_front: the empty blocks before the first occupied
\* one, seen from the entry side
CountEmptyFromFront(w, k, d) ==
  IF d = 1
  THEN Cardinality({ b \in 1..NumBlocks : \A b2 \in 1..b : w.blocks[k][b2] = NoAgent })
  ELSE Cardinality({ b \in 1..NumBlocks : \A b2 \in b..NumBlocks : w.blocks[k][b2] = NoAgent })

\* _assign_track: the track of the agent's direction with the smallest
\* non-zero gap at the entry (the sort is stable: lowest index on ties),
\* else the first empty track, else 0 where the code raises
AssignTrack(w, d) ==
  LET tracks == DOMAIN w.blocks
      open == { k \in tracks : w.trackDirections[k] = d /\ CountEmptyFromFront(w, k, d) > 0 }
      best == { k \in open : \A k2 \in open :
                  \/ CountEmptyFromFront(w, k, d) < CountEmptyFromFront(w, k2, d)
                  \/ (CountEmptyFromFront(w, k, d) = CountEmptyFromFront(w, k2, d) /\ k <= k2) }
      empty == { k \in tracks : w.trackDirections[k] = 0 }
  IN IF open # {} THEN CHOOSE k \in best : TRUE
     ELSE IF empty # {} THEN CHOOSE k \in empty : \A k2 \in empty : k <= k2
          ELSE 0

\* MultiBlockTrack.accept_agent
MultiBlockAccept(w, c, t) ==
  LET Place(d, k) ==
        IF d = 0 \/ k = 0
        THEN [w EXCEPT !.err = TRUE]
        ELSE AcceptAgent([w EXCEPT !.trackAssignments[t] = k,
                                   !.blocks[k][EntryBlock(d)] = t,
                                   !.trackDirections[k] = d], c, t)
  IN Place(GetTravelDirection(w, c, t), AssignTrack(w, GetTravelDirection(w, c, t)))

\* MultiBlockTrack.can_accept_agent raises where the direction does
MultiBlockCanAcceptRaises(w, c, t) ==
  CanAcceptAgent(w, c, t) /\ GetTravelDirection(w, c, t) = 0

\* MultiBlockTrack.can_accept_agent: a track of the agent's direction with
\* a free entry block, or a track without direction
MultiBlockCanAccept(w, c, t) ==
  /\ CanAcceptAgent(w, c, t)
  /\ \E d \in {GetTravelDirection(w, c, t)} : \E k \in DOMAIN w.blocks :
       \/ (w.trackDirections[k] = d /\ w.blocks[k][EntryBlock(d)] = NoAgent)
       \/ w.trackDirections[k] = 0

\* the hooks of a component, by its class
\* ---------------------------------------------------------------------
\* MultiTrackStation (spur/core/component.py): admission
\* ---------------------------------------------------------------------
\* _train_is_stopping(train, current=False) reads current_segment.next of
\* a train that has a current segment: AttributeError where that is None
TrainIsStoppingRaises(w, t) == w.cur[t] # NoSeg /\ w.segNext[w.cur[t]] = NoSeg

\* _train_is_stopping(train, current)
TrainIsStopping(w, t, current) ==
  IF current
  THEN w.segDeparture[w.cur[t]] # NoTime
  ELSE IF w.cur[t] # NoSeg
       THEN w.segDeparture[w.segNext[w.cur[t]]] # NoTime
       ELSE FALSE

\* the first None of a list of tracks, 0 if there is none
FirstFree(tracks) ==
  IF \A i \in DOMAIN tracks : tracks[i] # NoAgent THEN 0
  ELSE CHOOSE i \in DOMAIN tracks :
         tracks[i] = NoAgent /\ \A i2 \in 1..(i - 1) : tracks[i2] # NoAgent

\* MultiTrackStation.accept_agent
StationAccept(w, c, t) ==
  LET Bypass(w1) ==
        IF ~TrainIsStopping(w1, t, FALSE) /\ FirstFree(w1.bypassTracks) # 0
        THEN [w1 EXCEPT !.bypassTracks[FirstFree(w1.bypassTracks)] = t,
                        !.stationAssign[t] = [kind |-> "B", index |-> FirstFree(w1.bypassTracks)]]
        ELSE w1
      Stopping(w1) ==
        IF w1.stationAssign[t] = NoTrack /\ FirstFree(w1.stoppingTracks) # 0
        THEN [w1 EXCEPT !.stoppingTracks[FirstFree(w1.stoppingTracks)] = t,
                        !.stationAssign[t] = [kind |-> "S", index |-> FirstFree(w1.stoppingTracks)]]
        ELSE w1
      Check(w1) == IF w1.stationAssign[t] = NoTrack
                   THEN [w1 EXCEPT !.err = TRUE]
                   ELSE AcceptAgent(w1, c, t)
  IN IF TrainIsStoppingRaises(w, t)
     THEN [w EXCEPT !.err = TRUE]
     ELSE Check(Stopping(Bypass(w)))

MultiTrackCanAcceptRaises(w, c, t) ==
  CanAcceptAgent(w, c, t) /\ TrainIsStoppingRaises(w, t)

\* MultiTrackStation.can_accept_agent
MultiTrackCanAccept(w, c, t) ==
  /\ CanAcceptAgent(w, c, t)
  /\ IF TrainIsStopping(w, t, FALSE)
     THEN FirstFree(w.stoppingTracks) # 0
     ELSE FirstFree(w.bypassTracks) # 0 \/ FirstFree(w.stoppingTracks) # 0

\* accept_agent, can_accept_agent of a component, by its class
ComponentAccept(w, c, t) ==
  IF w.err THEN w
  ELSE IF IsMultiBlock(c) THEN MultiBlockAccept(w, c, t)
       ELSE IF IsMultiTrackStation(c) THEN StationAccept(w, c, t)
            ELSE AcceptAgent(w, c, t)

ComponentCanAccept(w, c, t) ==
  IF IsMultiBlock(c) THEN MultiBlockCanAccept(w, c, t)
  ELSE IF IsMultiTrackStation(c) THEN MultiTrackCanAccept(w, c, t)
       ELSE CanAcceptAgent(w, c, t)

ComponentCanAcceptRaises(w, c, t) ==
  \/ IsMultiBlock(c) /\ MultiBlockCanAcceptRaises(w, c, t)
  \/ IsMultiTrackStation(c) /\ MultiTrackCanAcceptRaises(w, c, t)

\* what one _do_put evaluation saw and decided
PutRecord(w, c, t, g) ==
  [ comp |-> c, agent |-> t, granted |-> g, users |-> w.users[c],
    putQueue |-> w.putQueue[c], cur |-> w.cur[t],
    occupied |-> IF CollectionOf(c) = NoZone THEN FALSE ELSE w.occupied[CollectionOf(c)],
    waitQueue |-> IF CollectionOf(c) = NoZone THEN << >> ELSE w.waitQueue[CollectionOf(c)] ]

\* _do_put without the capacity test
DoPutGuardNoCapacity(w, c, t) == ComponentCanAccept(CanAcceptEffect(w, c, t), c, t)

\* _do_put without the admission predicate, as in simpy's own Resource
DoPutGuardCapacityOnly(w, c, t) == Len(w.users[c]) < Capacity(c)

\* the condition of SpurResource._do_put; `and` does not evaluate the
\* predicate of a full resource
DoPutGuard(w, c, t) ==
  /\ Len(w.users[c]) < Capacity(c)
  /\ ~ComponentCanAcceptRaises(CanAcceptEffect(w, c, t), c, t)
  /\ ComponentCanAccept(CanAcceptEffect(w, c, t), c, t)

\* SpurResource._do_put(event): on success the agent joins users, the
\* component accepts it and the request event is triggered
DoPut(w, c, t) ==
  LET Succeed(w2) == IF w2.err THEN w2
                     ELSE Schedule(w2, Event(w2.now, NORMAL, "request", t, c))
      Log(g) == [w EXCEPT !.putLog = Append(@, PutRecord(w, c, t, g))]
      Checked(g) == IF Len(w.users[c]) < Capacity(c)
                    THEN CanAcceptEffect(Log(g), c, t) ELSE Log(g)
      Refused(w1) == IF Len(w.users[c]) < Capacity(c) /\ ComponentCanAcceptRaises(w1, c, t)
                     THEN [w1 EXCEPT !.err = TRUE]
                     ELSE w1
  IN IF DoPutGuard(w, c, t)
     THEN Succeed(ComponentAccept([Checked(TRUE) EXCEPT !.users[c] = Append(@, t)], c, t))
     ELSE Refused(Checked(FALSE))

\* a _trigger_put that goes on to the next waiter when the oldest one is
\* not granted
TriggerPutScan(w, c) ==
  IF w.putQueue[c] = << >>
  THEN w
  ELSE LET Second(w1, w2) ==
             IF w2.err THEN w2
             ELSE IF Len(w2.users[c]) > Len(w1.users[c])
                  THEN [w2 EXCEPT !.putQueue[c] = << Head(@) >> \o Tail(Tail(@))]
                  ELSE w2
           First(w1) ==
             IF w1.err THEN w1
             ELSE IF Len(w1.users[c]) > Len(w.users[c])
                  THEN [w1 EXCEPT !.putQueue[c] = Tail(@)]
                  ELSE IF Len(w1.putQueue[c]) < 2 THEN w1
                       ELSE Second(w1, DoPut(w1, c, w1.putQueue[c][2]))
       IN First(DoPut(w, c, Head(w.putQueue[c])))

\* simpy's BaseResource._trigger_put with a _do_put that returns None: the
\* oldest pending request is tried, it leaves the queue if it was granted,
\* and no other request is looked at
TriggerPut(w, c) ==
  IF w.putQueue[c] = << >>
  THEN w
  ELSE LET First(w1) ==
             IF w1.err THEN w1
             ELSE IF Len(w1.users[c]) > Len(w.users[c])
                  THEN [w1 EXCEPT !.putQueue[c] = Tail(@)]
                  ELSE w1
       IN First(DoPut(w, c, Head(w.putQueue[c])))

ProcessQueue(w, c) == TriggerPut(w, c)

\* SpurResource.request(agent): the request joins the queue and the queue
\* is triggered
Request(w, c, t) == TriggerPut([w EXCEPT !.putQueue[c] = Append(@, t)], c)

\* SpurResource.release(request) on the resource of c, for a request of
\* agent t that was issued by the resource of r: simpy removes the request
\* from users if it is there, and the release event triggers the put queue
\* when it is processed
Release(w, c, t, r) ==
  Schedule([w EXCEPT !.users[c] = IF r = c THEN RemoveFirst(@, t) ELSE @],
           Event(w.now, NORMAL, "release", t, c))

\* a release_agent that frees the zone on a move inside the zone as well
ZoneReleaseAlways(w, z, t) ==
  LET w1 == [w EXCEPT !.occupied[z] = FALSE]
  IN IF w1.waitQueue[z] = << >>
     THEN w1
     ELSE LET h == Head(w1.waitQueue[z])
          IN IF w1.cur[h] = NoSeg \/ w1.segNext[w1.cur[h]] = NoSeg
             THEN [w1 EXCEPT !.err = TRUE]
             ELSE ProcessQueue(w1, SegComp(w1.segNext[w1.cur[h]]))

ZoneReleaseAgent(w, z, t) ==
  LET nx == w.segNext[w.cur[t]]
  IN IF nx # NoSeg /\ CollectionOf(SegComp(nx)) = z
     THEN w
     ELSE LET w1 == [w EXCEPT !.occupied[z] = FALSE]
          IN IF w1.waitQueue[z] = << >>
             THEN w1
             ELSE LET h == Head(w1.waitQueue[z])
                  IN IF w1.cur[h] = NoSeg \/ w1.segNext[w1.cur[h]] = NoSeg
                     THEN [w1 EXCEPT !.err = TRUE]
                     ELSE ProcessQueue(w1, SegComp(w1.segNext[w1.cur[h]]))

ReleaseAgent(w, c, t) ==
  LET Remove(w1) == IF w1.err THEN w1
                    ELSE IF t \in w1.agents[c]
                         THEN [w1 EXCEPT !.agents[c] = @ \ {t}]
                         ELSE [w1 EXCEPT !.err = TRUE]
  IN Remove(IF w.err \/ CollectionOf(c) = NoZone THEN w
            ELSE ZoneReleaseAgent(w, CollectionOf(c), t))

\* ---------------------------------------------------------------------
\* MultiBlockTrack (spur/core/component.py): release and the moves of do()
\* ---------------------------------------------------------------------
\* _train_waiting_events[t].succeed() and its replacement by a new event:
\* the event resumes the do() of t if that is suspended on it; a train
\* that was released has no entry in _train_waiting_events (KeyError)
Wake(w, c, t) ==
  IF w.trackAssignments[t] = 0
  THEN [w EXCEPT !.err = TRUE]
  ELSE Schedule([w EXCEPT !.doLocal[t].wait = IF @ = "waiting" THEN "woken" ELSE @],
                Event(w.now, NORMAL, "wake", t,
                      IF w.doLocal[t].wait = "waiting" THEN c ELSE NoComp))

\* a "train behind" step that does not look at the resource's queue when
\* the entry block was left
TrainBehindNoQueue(w, c, k, b, d) ==
  IF b = EntryBlock(d)
  THEN w
  ELSE IF w.blocks[k][b - d] # NoAgent
       THEN Wake(w, c, w.blocks[k][b - d])
       ELSE w

\* a "train behind" step that does not succeed the waiting event of the
\* train in the block behind
TrainBehindNoWake(w, c, k, b, d) ==
  IF b = EntryBlock(d)
  THEN ProcessQueue(w, c)
  ELSE w

\* "take care of the train behind" after the agent left block b of track
\* k in direction d
TrainBehind(w, c, k, b, d) ==
  IF b = EntryBlock(d)
  THEN ProcessQueue(w, c)
  ELSE IF w.blocks[k][b - d] # NoAgent
       THEN Wake(w, c, w.blocks[k][b - d])
       ELSE w

\* a release_agent that leaves the direction of an emptied track in place
MultiBlockReleaseKeepDirection(w, c, t) ==
  LET k == w.trackAssignments[t]
      d == IF k = 0 THEN 0 ELSE w.trackDirections[k]
      b == ExitBlock(d)
  IN IF k = 0 \/ d = 0 \/ w.blocks[k][b] # t
     THEN [w EXCEPT !.err = TRUE]
     ELSE ReleaseAgent(
            TrainBehind([w EXCEPT !.blocks[k][b] = NoAgent, !.trackAssignments[t] = 0],
                        c, k, b, d),
            c, t)

\* MultiBlockTrack.release_agent
MultiBlockRelease(w, c, t) ==
  LET k == w.trackAssignments[t]
      d == IF k = 0 THEN 0 ELSE w.trackDirections[k]
      b == ExitBlock(d)
      ResetDirection(w1) ==
        [w1 EXCEPT !.trackDirections[k] =
           IF \A b2 \in 1..NumBlocks : w1.blocks[k][b2] = NoAgent THEN 0 ELSE @]
  IN IF k = 0 \/ d = 0 \/ w.blocks[k][b] # t
     THEN [w EXCEPT !.err = TRUE]
     ELSE ReleaseAgent(
            TrainBehind(ResetDirection([w EXCEPT !.blocks[k][b] = NoAgent,
                                                 !.trackAssignments[t] = 0]),
                        c, k, b, d),
            c, t)

\* MultiTrackStation.release_agent: a train without an entry in
\* _track_assignments raises KeyError
StationRelease(w, c, t) ==
  LET a == w.stationAssign[t]
  IN IF a = NoTrack
     THEN [w EXCEPT !.err = TRUE]
     ELSE ReleaseAgent(
            [w EXCEPT !.stoppingTracks = IF a.kind = "S" THEN [@ EXCEPT ![a.index] = NoAgent] ELSE @,
                      !.bypassTracks = IF a.kind = "S" THEN @ ELSE [@ EXCEPT ![a.index] = NoAgent],
                      !.stationAssign[t] = NoTrack],
            c, t)

ComponentRelease(w, c, t) ==
  IF IsMultiBlock(c) THEN MultiBlockRelease(w, c, t)
  ELSE IF IsMultiTrackStation(c) THEN StationRelease(w, c, t)
       ELSE ReleaseAgent(w, c, t)

\* Agent.transfer_to(segment)
TransferTo(w, t, s) ==
  LET Attach(w1) == IF w1.err THEN w1 ELSE [w1 EXCEPT !.cur[t] = s]
  IN ComponentAccept(
       Attach(IF w.cur[t] # NoSeg THEN ComponentRelease(w, SegComp(w.cur[t]), t) ELSE w),
       SegComp(s), t)

\* ---------------------------------------------------------------------
\* Tour.traverse() (spur/core/tour.py), one next() of the generator
\* ---------------------------------------------------------------------
GenNext(w, t) ==
  LET T == tourOf[t]
      g == w.gen[t]
      \* the statements between the yield the generator is suspended at
      \* and the next loop test
      ts == CASE g.at = "start" -> 1
               [] g.at = "inner" -> g.ts
               [] g.at = "outer" -> TourNext(T, g.ts)
               [] OTHER -> 0
      rs == CASE g.at = "start" -> <<T, 1, 1>>
               [] g.at \in {"inner", "outer"} -> w.segNext[g.rs]
               [] OTHER -> NoSeg
  IN IF ts = 0
     THEN [w EXCEPT !.gen[t] = [ts |-> 0, rs |-> NoSeg, at |-> "end"]]
     ELSE IF rs = NoSeg
          THEN [w EXCEPT !.err = TRUE]
          ELSE IF w.segNext[rs] # NoSeg
               THEN [w EXCEPT !.gen[t] = [ts |-> ts, rs |-> rs, at |-> "inner"],
                              !.seg[t] = rs, !.yielded[t] = Append(@, rs)]
               ELSE IF TourNext(T, ts) # 0
                    THEN IF Len(TourRoutes[T][ts + 1]) < 2
                         THEN [w EXCEPT !.err = TRUE]
                         ELSE [w EXCEPT !.segDeparture[rs] = w.segDeparture[<<T, ts + 1, 1>>],
                                        !.segNext[rs] = <<T, ts + 1, 2>>,
                                        !.gen[t] = [ts |-> ts, rs |-> rs, at |-> "outer"],
                                        !.seg[t] = rs, !.yielded[t] = Append(@, rs)]
                    ELSE [w EXCEPT !.gen[t] = [ts |-> ts, rs |-> rs, at |-> "outer"],
                                   !.seg[t] = rs, !.yielded[t] = Append(@, rs)]

\* ---------------------------------------------------------------------
\* Train.run() (spur/core/train.py), cut at its suspension points
\* ---------------------------------------------------------------------
\* a hold that never waits
WaitTimeNone(target, n) == 0

WaitTime(target, n) == IF target - n > 0 THEN target - n ELSE 0

\* an exception leaves the generator: the process event fails
FailProcess(w, t) ==
  Schedule([w EXCEPT !.pc[t] = "failed", !.err = FALSE],
           Event(w.now, NORMAL, "end", t, NoComp))

ProcStep(w, t) == IF w.err THEN FailProcess(w, t) ELSE w

\* req = segment.component.resource.request(self); yield req
RequestSegment(w, t) ==
  LET Wait(w1) == IF w1.err THEN w1 ELSE [w1 EXCEPT !.pc[t] = "request"]
  IN Wait(Request(w, SegComp(w.seg[t]), t))

\* the end of the tour: the request of the last segment is released
FinishTour(w, t) ==
  Schedule([Release(w, SegComp(w.cur[t]), t, w.prevReq[t]) EXCEPT !.pc[t] = "done"],
           Event(w.now, NORMAL, "end", t, NoComp))

\* the head of the for loop: the next segment of the tour and its arrival hold
LoopHead(w, t) ==
  IF w.err THEN w
  ELSE IF w.gen[t].at = "end"
       THEN FinishTour(w, t)
       ELSE IF SegArrival(w.seg[t]) # NoTime
            THEN Schedule([w EXCEPT !.pc[t] = "arrival"],
                          Event(w.now + WaitTime(SegArrival(w.seg[t]), w.now),
                                NORMAL, "timeout", t, NoComp))
            ELSE RequestSegment(w, t)

\* the train's generator asks the tour for the next segment
NextSegment(w, t) == LoopHead(GenNext(w, t), t)

\* a line of the agent log: the time stamp, IN or OUT, the component
LogRecord(k, c, n) == [kind |-> k, comp |-> c, time |-> n]

\* the request was granted: transfer, release the previous request, start do()
EnterSegment(w, t) ==
  LET s == w.seg[t]
      Do(w2) == IF w2.err THEN w2
                ELSE Schedule([w2 EXCEPT !.pc[t] = "do",
                                         !.agentLog[t] = Append(@, LogRecord("IN", SegComp(s), w2.now))],
                              Event(w2.now, URGENT, "do_init", t, SegComp(w2.cur[t])))
      ReleasePrev(w1) ==
        Do(IF w1.err \/ w1.prevReq[t] = NoComp THEN w1
           ELSE IF SegPrev(s) = NoSeg THEN [w1 EXCEPT !.err = TRUE]
                ELSE Release(w1, SegComp(SegPrev(s)), t, w1.prevReq[t]))
  IN ReleasePrev(TransferTo(w, t, s))

\* a loop body that releases its request as soon as the segment is done
EndOfSegmentReleasing(w, t) ==
  [Release(w, SegComp(w.seg[t]), t, SegComp(w.seg[t])) EXCEPT
     !.prevReq[t] = NoComp,
     !.agentLog[t] = Append(@, LogRecord("OUT", SegComp(w.seg[t]), w.now))]

\* the end of the loop body: the OUT record and prev_req = req
EndOfSegment(w, t) ==
  [w EXCEPT !.prevReq[t] = SegComp(w.seg[t]),
            !.agentLog[t] = Append(@, LogRecord("OUT", SegComp(w.seg[t]), w.now))]

\* leaving without the departure hold
LeaveSegmentNoHold(w, t) == NextSegment(EndOfSegment(w, t), t)

\* do() has returned: the departure hold
LeaveSegment(w, t) ==
  LET d == w.segDeparture[w.seg[t]]
  IN IF d # NoTime
     THEN Schedule([w EXCEPT !.pc[t] = "departure"],
                   Event(w.now + WaitTime(d, w.now), NORMAL, "timeout", t, NoComp))
     ELSE NextSegment(EndOfSegment(w, t), t)

\* a do() that waits for the jitter only
TimedTrackDoJitterOnly(w, t, c, j) ==
  Schedule([w EXCEPT !.lastJitter[t] = j],
           Event(w.now + j, NORMAL, "do_timeout", t, c))

\* TimedTrack.do(train): one timeout of traversal_time + jitter
TimedTrackDo(w, t, c, j) ==
  Schedule([w EXCEPT !.lastJitter[t] = j],
           Event(w.now + TraversalTime(c) + j, NORMAL, "do_timeout", t, c))

\* the process of do() ends: normally, or with the exception that left it
EndDo(w, t, c) ==
  Schedule([w EXCEPT !.err = FALSE, !.pc[t] = IF w.err THEN "do_failed" ELSE @],
           Event(w.now, NORMAL, "do_end", t, c))

\* MultiBlockTrack.do(train) up to its first timeout
MultiBlockDo(w, t, c) ==
  LET k == w.trackAssignments[t]
      d == IF k = 0 THEN 0 ELSE w.trackDirections[k]
  IN IF k = 0 \/ d = 0
     THEN EndDo([w EXCEPT !.err = TRUE], t, c)
     ELSE Schedule([w EXCEPT !.doLocal[t] = [track |-> k, dir |-> d, b |-> EntryBlock(d),
                                             wait |-> "no"],
                             !.lastJitter[t] = 0],
                   Event(w.now + BlockTraversalTime(c), NORMAL, "do_timeout", t, c))

\* the train moves from block b to the next one, lets the train behind
\* follow, and starts the timeout of the next block
MultiBlockShift(w, t, c) ==
  LET l == w.doLocal[t]
      Loop(w1) ==
        IF w1.err THEN EndDo(w1, t, c)
        ELSE Schedule([w1 EXCEPT !.doLocal[t].b = l.b + l.dir, !.doLocal[t].wait = "no"],
                      Event(w1.now + BlockTraversalTime(c), NORMAL, "do_timeout", t, c))
  IN Loop(TrainBehind([w EXCEPT !.blocks[l.track][l.b + l.dir] = t,
                                !.blocks[l.track][l.b] = NoAgent],
                      c, l.track, l.b, l.dir))

\* a block's timeout has fired: the generator ends after the last block,
\* waits for its event if the next block is occupied, and moves otherwise
MultiBlockStep(w, t, c) ==
  LET l == w.doLocal[t]
  IN IF l.b = ExitBlock(l.dir)
     THEN EndDo(w, t, c)
     ELSE IF w.blocks[l.track][l.b + l.dir] # NoAgent
          THEN [w EXCEPT !.doLocal[t].wait = "waiting"]
          ELSE MultiBlockShift(w, t, c)

\* MultiTrackStation.do(train): the dwell drawn for a stopping train, the
\* bypass time for the others (the jitter of S is NoJitter)
StationDo(w, t, c, dwell) ==
  LET time == IF TrainIsStopping(w, t, TRUE) THEN dwell ELSE BypassTime
  IN Schedule([w EXCEPT !.lastDwell[t] = time, !.lastJitter[t] = 0],
              Event(w.now + time, NORMAL, "do_timeout", t, c))

\* DynamicHeadwayStation.do(train): _previous_train_time is assigned in
\* the branch that finds it set
DynamicHeadwayDo(w, t, c) ==
  LET elapsed == w.now - w.previousTrainTime
      dwell == IF w.previousTrainTime = NoTime
               THEN FirstTrainDwell
               ELSE Intercept + BoardingSlope * (elapsed * BoardingRate)
                              + AlightingSlope * (elapsed * AlightingRate)
  IN Schedule([w EXCEPT !.previousTrainTime = IF @ = NoTime THEN @ ELSE w.now,
                        !.lastDwell[t] = dwell, !.lastJitter[t] = 0],
              Event(w.now + dwell, NORMAL, "do_timeout", t, c))

\* the do() of a component, by its class
ComponentDo(w, t, c, j) ==
  IF IsMultiBlock(c) THEN MultiBlockDo(w, t, c)
  ELSE IF IsMultiTrackStation(c) THEN StationDo(w, t, c, j)
       ELSE IF IsDynamicHeadwayStation(c) THEN DynamicHeadwayDo(w, t, c)
            ELSE TimedTrackDo(w, t, c, j)

\* the timeout of a do() has fired
ComponentStep(w, t, c) ==
  IF IsMultiBlock(c) THEN MultiBlockStep(w, t, c) ELSE EndDo(w, t, c)

\* the process event of do() reaches the train: the exception of a failed
\* do() is raised in Train.run
AfterDo(w, t) ==
  IF w.pc[t] = "do_failed" THEN [w EXCEPT !.err = TRUE] ELSE LeaveSegment(w, t)

\* ---------------------------------------------------------------------
\* Actions: Model.start() and one action per kind of event that
\* Environment.step() takes from the queue
\* ---------------------------------------------------------------------
\* no constructor has been called
NotBuilt ==
  [type |-> "none", traversal_time |-> 0, capacity |-> 0, length |-> 0, track_speed |-> 0,
   num_tracks |-> 0, num_blocks |-> 0, err |-> "none"]

\* Route(): no segments; the RouteSegment objects are numbered in the order
\* they are made, 0 stands for None
EmptyRoute ==
  [segments |-> << >>, objects |-> << >>, err |-> "none",
   op |-> [name |-> "Route", component |-> "", idx |-> 0]]

\* Tour(creation_time, deletion_time): no tour segments; the TourSegment
\* objects are numbered in the order they are made, 0 stands for None
EmptyLinkedTour ==
  [tour_segments |-> << >>, objects |-> << >>, err |-> "none",
   op |-> [name |-> "Tour", route |-> << >>, idx |-> 0]]

\* no dictionary: as_dict() has not returned one
NoDict == [type |-> "", uid |-> "", jitter |-> "", args |-> << >>]

\* no component has been constructed
NoComponent ==
  [attrs |-> << >>, op |-> "none", err |-> "none", dict |-> NoDict, rebuilt |-> "none"]

\* Model.__init__ and Tour.__init__: empty registries, no tour segments
LoadInit ==
  /\ trainReg = << >>
  /\ tourReg = [n \in {} |-> << >>]
  /\ routeSegs = [n \in {} |-> << >>]
  /\ tourSegs = << >>
  /\ raised = "none"
  /\ lastOp = [op |-> "none", name |-> "", routes |-> << >>, bad |-> 0, args |-> << >>]
  /\ built = NotBuilt
  /\ routeObj = EmptyRoute
  /\ tourObj = EmptyLinkedTour
  /\ compObj = NoComponent

InitWith(tourSets, counts) ==
  /\ LoadInit
  /\ now = 0
  /\ queue = << >>
  /\ started = FALSE
  /\ crashed = FALSE
  /\ \E line \in tourSets : tourOf \in [Trains -> line \cup {NoTour}]
  /\ pc = [t \in Trains |-> "idle"]
  /\ cur = [t \in Trains |-> NoSeg]
  /\ seg = [t \in Trains |-> NoSeg]
  /\ prevReq = [t \in Trains |-> NoComp]
  /\ gen = [t \in Trains |-> [ts |-> 0, rs |-> NoSeg, at |-> "start"]]
  /\ segNext = [s \in SegIds |-> InitNext(s)]
  /\ segDeparture = [s \in SegIds |-> InitDeparture(s)]
  /\ users = [c \in Comps |-> << >>]
  /\ putQueue = [c \in Comps |-> << >>]
  /\ agents = [c \in Comps |-> {}]
  /\ occupied = [z \in Zones |-> FALSE]
  /\ waitQueue = [z \in Zones |-> << >>]
  /\ putLog = << >>
  /\ running = FALSE
  /\ agentLog = [t \in Trains |-> << >>]
  /\ yielded = [t \in Trains |-> << >>]
  /\ lastJitter = [t \in Trains |-> 0]
  /\ numTracks \in counts
  /\ blocks = [k \in 1..numTracks |-> [b \in 1..NumBlocks |-> NoAgent]]
  /\ trackDirections = [k \in 1..numTracks |-> 0]
  /\ trackAssignments = [t \in Trains |-> 0]
  /\ doLocal = [t \in Trains |-> NoLocals]
  /\ stoppingTracks = [i \in 1..NumStoppingTracks |-> NoAgent]
  /\ bypassTracks = [i \in 1..NumBypassTracks |-> NoAgent]
  /\ stationAssign = [t \in Trains |-> NoTrack]
  /\ previousTrainTime = NoTime
  /\ lastDwell = [t \in Trains |-> NoTime]

\* the state after the model of line 1 or of line 2 was built
Init == InitWith(LineTours, TrackCounts)

\* the trains of the model's registry (Model.trains)
Fleet == { t \in Trains : tourOf[t] # NoTour }

\* Model.start(): one process per train, in the order of the registry
Start ==
  /\ ~started
  /\ started' = TRUE
  /\ LET InFleet(e) == e.tr \in Fleet
     IN queue' = SelectSeq([t \in Trains |-> Event(now, URGENT, "init", t, NoComp)], InFleet)
  /\ pc' = [t \in Trains |-> IF t \in Fleet THEN "init" ELSE "idle"]
  /\ putLog' = << >>
  /\ UNCHANGED << now, crashed, tourOf, cur, seg, prevReq, gen, segNext, segDeparture,
                  users, putQueue, agents, occupied, waitQueue, running, agentLog,
                  yielded, lastJitter, numTracks, blocks, trackDirections,
                  trackAssignments, doLocal >>
  /\ UNCHANGED stationVars
  /\ UNCHANGED loadVars

\* the values of `until` that Model.run is called with
UntilTimes == {MaxTime \div 2, MaxTime}

\* Model.run(until=T): simpy schedules an urgent stop event at T and steps
\* until that event is processed; T <= now raises ValueError
Run ==
  /\ started
  /\ ~running
  /\ ~crashed
  /\ \E T \in UntilTimes :
       /\ T > now
       /\ queue' = Schedule(World, Event(T, URGENT, "stop", 0, NoComp)).queue
  /\ running' = TRUE
  /\ putLog' = << >>
  /\ UNCHANGED << now, started, crashed, tourOf, pc, cur, seg, prevReq, gen, segNext,
                  segDeparture, users, putQueue, agents, occupied, waitQueue, agentLog,
                  yielded, lastJitter, numTracks, blocks, trackDirections,
                  trackAssignments, doLocal >>
  /\ UNCHANGED stationVars
  /\ UNCHANGED loadVars

Ready(k) ==
  /\ running
  /\ ~crashed
  /\ queue # << >>
  /\ Head(queue).kind = k

\* a run that returns at the stop event with the clock left at the time
\* of the last event before it
RunReturnsClockKept ==
  /\ Ready("stop")
  /\ queue' = Tail(queue)
  /\ running' = FALSE
  /\ putLog' = << >>
  /\ UNCHANGED << now, started, crashed, tourOf, pc, cur, seg, prevReq, gen, segNext,
                  segDeparture, users, putQueue, agents, occupied, waitQueue, agentLog,
                  yielded, lastJitter, numTracks, blocks, trackDirections,
                  trackAssignments, doLocal >>
  /\ UNCHANGED stationVars
  /\ UNCHANGED loadVars

\* the stop event is processed: Model.run returns
RunReturns ==
  /\ Ready("stop")
  /\ now' = Head(queue).time
  /\ queue' = Tail(queue)
  /\ running' = FALSE
  /\ putLog' = << >>
  /\ UNCHANGED << started, crashed, tourOf, pc, cur, seg, prevReq, gen, segNext,
                  segDeparture, users, putQueue, agents, occupied, waitQueue, agentLog,
                  yielded, lastJitter, numTracks, blocks, trackDirections,
                  trackAssignments, doLocal >>
  /\ UNCHANGED stationVars
  /\ UNCHANGED loadVars

\* the state in which the callbacks of the popped event run
Popped == [World EXCEPT !.queue = Tail(queue), !.now = Head(queue).time]

ProcessInit ==
  /\ Ready("init")
  /\ LET t == Head(queue).tr IN Install(ProcStep(NextSegment(Popped, t), t))

ArrivalTimeout ==
  /\ Ready("timeout")
  /\ pc[Head(queue).tr] = "arrival"
  /\ LET t == Head(queue).tr IN Install(ProcStep(RequestSegment(Popped, t), t))

DepartureTimeout ==
  /\ Ready("timeout")
  /\ pc[Head(queue).tr] = "departure"
  /\ LET t == Head(queue).tr
     IN Install(ProcStep(NextSegment(EndOfSegment(Popped, t), t), t))

RequestGranted ==
  /\ Ready("request")
  /\ LET t == Head(queue).tr IN Install(ProcStep(EnterSegment(Popped, t), t))

\* the callback of a Release event is _trigger_put; an exception in it
\* leaves Environment.step()
ReleaseEvent ==
  /\ Ready("release")
  /\ LET Callback(w) == [w EXCEPT !.crashed = w.err, !.err = FALSE]
     IN Install(Callback(TriggerPut(Popped, Head(queue).comp)))

\* the random values a do() of component c draws
Draws(c) == IF IsMultiTrackStation(c) THEN StationDwells ELSE JitterValues(c)

DoInit ==
  /\ Ready("do_init")
  /\ \E j \in Draws(Head(queue).comp) :
       Install(ComponentDo(Popped, Head(queue).tr, Head(queue).comp, j))

\* the generator of do() ends: the process event of do() succeeds
DoTimeout ==
  /\ Ready("do_timeout")
  /\ Install(ComponentStep(Popped, Head(queue).tr, Head(queue).comp))

DoEnd ==
  /\ Ready("do_end")
  /\ LET t == Head(queue).tr IN Install(ProcStep(AfterDo(Popped, t), t))

\* a waiting event of the MultiBlockTrack is processed: the do() suspended
\* on it, if any, goes on
BlockWake ==
  /\ Ready("wake")
  /\ IF Head(queue).comp = NoComp
     THEN Install(Popped)
     ELSE Install(MultiBlockShift(Popped, Head(queue).tr, Head(queue).comp))

\* the event of a train process: a failed one raises out of step()
ProcessEnd ==
  /\ Ready("end")
  /\ Install([Popped EXCEPT !.crashed = (pc[Head(queue).tr] = "failed")])

Next ==
  \/ Start
  \/ Run
  \/ RunReturns
  \/ ProcessInit
  \/ ArrivalTimeout
  \/ DepartureTimeout
  \/ RequestGranted
  \/ ReleaseEvent
  \/ DoInit
  \/ DoTimeout
  \/ DoEnd
  \/ BlockWake
  \/ ProcessEnd

Spec == Init /\ [][Next]_vars

\* Model.run() without until: simpy steps until no event is left
RunToEnd ==
  /\ started
  /\ ~running
  /\ ~crashed
  /\ queue # << >>
  /\ running' = TRUE
  /\ putLog' = << >>
  /\ UNCHANGED << now, queue, started, crashed, tourOf, pc, cur, seg, prevReq, gen, segNext,
                  segDeparture, users, putQueue, agents, occupied, waitQueue, agentLog,
                  yielded, lastJitter, numTracks, blocks, trackDirections,
                  trackAssignments, doLocal >>
  /\ UNCHANGED stationVars
  /\ UNCHANGED loadVars

\* the event queue is empty: Model.run() returns
RunEnds ==
  /\ running
  /\ ~crashed
  /\ queue = << >>
  /\ running' = FALSE
  /\ putLog' = << >>
  /\ UNCHANGED << now, queue, started, crashed, tourOf, pc, cur, seg, prevReq, gen, segNext,
                  segDeparture, users, putQueue, agents, occupied, waitQueue, agentLog,
                  yielded, lastJitter, numTracks, blocks, trackDirections,
                  trackAssignments, doLocal >>
  /\ UNCHANGED stationVars
  /\ UNCHANGED loadVars

\* the tours of these runs have no arrival and no departure times
NextToEnd ==
  \/ Start
  \/ RunToEnd
  \/ RunEnds
  \/ ProcessInit
  \/ RequestGranted
  \/ ReleaseEvent
  \/ DoInit
  \/ DoTimeout
  \/ DoEnd
  \/ BlockWake
  \/ ProcessEnd

\* the tours over components without a collection whose segments have no
\* arrival and no departure time
PlainTours ==
  { T \in TourIds :
      \A r \in 1..Len(TourRoutes[T]) : \A i \in 1..Len(TourRoutes[T][r]) :
        /\ CollectionOf(TourRoutes[T][r][i].component) = NoZone
        /\ TourRoutes[T][r][i].arrival = NoTime
        /\ TourRoutes[T][r][i].departure = NoTime }

\* a model whose trains were all given the same tour
InitSameTour == InitWith({ {T} : T \in PlainTours }, TrackCounts)

\* a run to the end: Model.start() and Model.run() are called, and
\* Environment.run() takes the next event as long as there is one
SpecToEnd == InitSameTour /\ [][NextToEnd]_vars /\ WF_vars(NextToEnd)

\* the run of the model of line 3
InitStation == InitWith({StationTours}, {2})

NextStation ==
  \/ Start
  \/ Run
  \/ RunReturns
  \/ ProcessInit
  \/ ArrivalTimeout
  \/ DepartureTimeout
  \/ RequestGranted
  \/ ReleaseEvent
  \/ DoInit
  \/ DoTimeout
  \/ DoEnd
  \/ ProcessEnd

SpecStation == InitStation /\ [][NextStation]_vars

\* ---------------------------------------------------------------------
\* Loading a project (spur/core/model.py, spur/core/tour.py)
\* ---------------------------------------------------------------------
\* the most routes appended to one tour
MaxRoutes == 3

\* the most routes of a tour in the tours list of a project
MaxTourRoutes == 2

\* the uids of the trains and the names of the tours of a project
Uids == {"x", "y"}

\* the routes of a project, each the components of its segments; one is empty
LoadRoutes == { <<"A", "B">>, <<"B", "D">>, << >> }

\* the values of t["routes"] in the tours list
RouteLists == UNION { [1..n -> LoadRoutes] : n \in 0..MaxTourRoutes }

\* a new Tour: no tour segments, no exception so far
EmptyTour == [segs |-> << >>, err |-> "none"]

\* Model._uid_unique
UidUnique(trains, tours, uid) ==
  ~(\E i \in 1..Len(trains) : trains[i] = uid) /\ uid \notin DOMAIN tours

\* a Tour.append that links the route without comparing the components
TourAppendUnchecked(segs, route) ==
  LET n == Len(segs)
  IN [segs |-> Append(IF n > 0 THEN [segs EXCEPT ![n].next = n + 1] ELSE segs,
                      [route |-> route, prev |-> n, next |-> 0]),
      err |-> "none"]

\* Tour.append(route): prev and next of a tour segment are positions in
\* the list, 0 for None; indexing an empty route raises IndexError, and
\* TourSegment.__init__ calls route.uids(), whose traverse() of an empty
\* route raises StopIteration inside a generator (a RuntimeError)
TourAppend(segs, route) ==
  LET n == Len(segs)
  IN IF n > 0 /\ (segs[n].route = << >> \/ route = << >>)
     THEN [segs |-> segs, err |-> "IndexError"]
     ELSE IF n > 0 /\ segs[n].route[Len(segs[n].route)] # route[1]
          THEN [segs |-> segs, err |-> "InputMismatchError"]
          ELSE IF route = << >>
          THEN [segs |-> segs, err |-> "RuntimeError"]
          ELSE [segs |-> Append(IF n > 0 THEN [segs EXCEPT ![n].next = n + 1] ELSE segs,
                                [route |-> route, prev |-> n, next |-> 0]),
                err |-> "none"]

RECURSIVE AppendAll(_, _)
\* the loop over t["routes"]: the first exception ends it
AppendAll(tour, routes) ==
  IF routes = << >> \/ tour.err # "none"
  THEN tour
  ELSE AppendAll(TourAppend(tour.segs, Head(routes)), Tail(routes))

\* the tour built from t["routes"] when the args list of route number bad
\* (0: of none) has the wrong length
BuildTour(routes, bad) ==
  LET Check(tour) == IF tour.err = "none" /\ bad > 0
                     THEN [tour EXCEPT !.err = "InputMismatchError"]
                     ELSE tour
  IN Check(AppendAll(EmptyTour, IF bad > 0 THEN SubSeq(routes, 1, bad - 1) ELSE routes))

\* a dict assignment d[key] = value
DictSet(d, key, value) ==
  [k \in DOMAIN d \cup {key} |-> IF k = key THEN value ELSE d[k]]

\* an entry of r["args"]: null, or the keyword arguments of Route.append
\* (NoTime for a key that is not given)
NullArgs == [null |-> TRUE, arrival |-> NoTime, departure |-> NoTime]

TimedArgs == [null |-> FALSE, arrival |-> 1, departure |-> 2]

\* an args list of the wrong length for a route of n components
WrongLength(n) == [i \in 1..(n + 1) |-> NullArgs]

\* the values of r["args"] for the routes of a tour, each entry from entries
ArgLists(routes, entries) ==
  LET ArgsFor(route) == [1..Len(route) -> entries] \cup { WrongLength(Len(route)) }
  IN { args \in [1..Len(routes) -> UNION { ArgsFor(route) : route \in LoadRoutes }] :
         \A r \in 1..Len(routes) : args[r] \in ArgsFor(routes[r]) }

\* a loader that does not compare the number of args with the number of
\* components
FirstBadNone(routes, args) == 0

\* the first route of t["routes"] whose args list has not one entry per
\* component, 0 if there is none
FirstBad(routes, args) ==
  LET Bad == { r \in 1..Len(routes) : Len(args[r]) # Len(routes[r]) }
  IN IF Bad = {} THEN 0 ELSE CHOOSE r \in Bad : \A q \in Bad : r <= q

\* the segments that the Route.append calls over zip(components, args) make
RouteSegments(route, args) ==
  [i \in 1..(IF Len(route) <= Len(args) THEN Len(route) ELSE Len(args)) |->
     [component |-> route[i],
      arrival |-> IF args[i].null THEN NoTime ELSE args[i].arrival,
      departure |-> IF args[i].null THEN NoTime ELSE args[i].departure]]

\* Model.add_routes_and_tours_from_lists, for one tour record: the
\* exception it ends with, and the registry and the route segments after it
LoadTour(name, routes, args) ==
  LET Result(tour) ==
        [err |-> tour.err,
         tours |-> IF tour.err = "none" THEN DictSet(tourReg, name, tour.segs) ELSE tourReg,
         segs |-> IF tour.err = "none"
                  THEN DictSet(routeSegs, name,
                               [r \in 1..Len(routes) |-> RouteSegments(routes[r], args[r])])
                  ELSE routeSegs]
  IN Result(BuildTour(routes, FirstBad(routes, args)))

\* a project whose tours give no arrival or departure times
AddTour ==
  \E name \in Uids, routes \in RouteLists :
    \E args \in ArgLists(routes, {NullArgs}) :
      /\ raised' = LoadTour(name, routes, args).err
      /\ tourReg' = LoadTour(name, routes, args).tours
      /\ routeSegs' = LoadTour(name, routes, args).segs
      /\ lastOp' = [op |-> "add_tour", name |-> name, routes |-> << >>, bad |-> 0,
                    args |-> << >>]
      /\ UNCHANGED << trainReg, tourSegs >>
      /\ UNCHANGED << runVars, buildVars >>

\* the tour records of a timetable: every entry of args null or with times
AddTimedTour ==
  \E routes \in RouteLists :
    \E args \in ArgLists(routes, {NullArgs, TimedArgs}) :
      /\ raised' = LoadTour("x", routes, args).err
      /\ tourReg' = LoadTour("x", routes, args).tours
      /\ routeSegs' = LoadTour("x", routes, args).segs
      /\ lastOp' = [op |-> "add_tour", name |-> "x", routes |-> routes, bad |-> 0,
                    args |-> args]
      /\ UNCHANGED << trainReg, tourSegs >>
      /\ UNCHANGED << runVars, buildVars >>

\* Model.add_train(uid, max_speed, tour): Train.__init__ reaches
\* BaseItem.__init__, which raises before the train is stored
AddTrain ==
  \E uid \in Uids :
    /\ raised' = IF UidUnique(trainReg, tourReg, uid) THEN "none" ELSE "NotUniqueIDError"
    /\ trainReg' = IF UidUnique(trainReg, tourReg, uid) THEN Append(trainReg, uid)
                   ELSE trainReg
    /\ lastOp' = [op |-> "add_train", name |-> uid, routes |-> << >>, bad |-> 0, args |-> << >>]
    /\ UNCHANGED << tourReg, routeSegs, tourSegs >>
    /\ UNCHANGED << runVars, buildVars >>

\* Tour(creation_time, deletion_time)
NewTour ==
  /\ tourSegs' = << >>
  /\ raised' = "none"
  /\ lastOp' = [op |-> "new_tour", name |-> "", routes |-> << >>, bad |-> 0, args |-> << >>]
  /\ UNCHANGED << trainReg, tourReg, routeSegs >>
  /\ UNCHANGED << runVars, buildVars >>

\* Tour.append(route) on the tour under construction
AppendRoute ==
  /\ Len(tourSegs) < MaxRoutes
  /\ \E route \in LoadRoutes :
       /\ tourSegs' = TourAppend(tourSegs, route).segs
       /\ raised' = TourAppend(tourSegs, route).err
       /\ lastOp' = [op |-> "append", name |-> "", routes |-> << route >>, bad |-> 0, args |-> << >>]
  /\ UNCHANGED << trainReg, tourReg, routeSegs >>
  /\ UNCHANGED << runVars, buildVars >>

\* the values a size parameter of a component is given
Sizes == -2..2

\* simpy's Resource.__init__(env, capacity)
ResourceRaises(capacity) == capacity <= 0

\* the traversal_time setter of TimedTrack and of SimpleCrossover
TraversalTimeRaises(traversal_time) == traversal_time < 0

\* the length and the track_speed setter of PhysicsTrack
PositiveRaises(value) == value <= 0

\* TimedTrack(model, uid, traversal_time, capacity): the setter, then the resource
NewTimedTrack ==
  \E traversal_time \in Sizes, capacity \in Sizes :
    /\ built' = [NotBuilt EXCEPT
                   !.type = "TimedTrack",
                   !.traversal_time = traversal_time,
                   !.capacity = capacity,
                   !.err = IF TraversalTimeRaises(traversal_time) THEN "NotPositiveError"
                           ELSE IF ResourceRaises(capacity) THEN "ValueError"
                           ELSE "none"]
    /\ UNCHANGED << runVars, registryVars, routeObj, tourObj, compObj >>

\* SimpleCrossover(model, uid, traversal_time): the setter, then a resource of capacity 1
NewSimpleCrossover ==
  \E traversal_time \in Sizes :
    /\ built' = [NotBuilt EXCEPT
                   !.type = "SimpleCrossover",
                   !.traversal_time = traversal_time,
                   !.capacity = 1,
                   !.err = IF TraversalTimeRaises(traversal_time) THEN "NotPositiveError"
                           ELSE IF ResourceRaises(1) THEN "ValueError"
                           ELSE "none"]
    /\ UNCHANGED << runVars, registryVars, routeObj, tourObj, compObj >>

\* PhysicsTrack(model, uid, length, track_speed): a resource of capacity 1,
\* then the track_speed setter, then the length setter
NewPhysicsTrack ==
  \E length \in Sizes, track_speed \in Sizes :
    /\ built' = [NotBuilt EXCEPT
                   !.type = "PhysicsTrack",
                   !.length = length,
                   !.track_speed = track_speed,
                   !.capacity = 1,
                   !.err = IF ResourceRaises(1) THEN "ValueError"
                           ELSE IF PositiveRaises(track_speed) THEN "NotPositiveError"
                           ELSE IF PositiveRaises(length) THEN "NotPositiveError"
                           ELSE "none"]
    /\ UNCHANGED << runVars, registryVars, routeObj, tourObj, compObj >>

\* MultiBlockTrack(model, uid, num_tracks, num_blocks, traversal_time): the
\* division by num_blocks, the block lists over range(num_tracks) and
\* range(num_blocks), then a resource of capacity num_tracks * num_blocks
NewMultiBlockTrack ==
  \E num_tracks \in Sizes, num_blocks \in Sizes, traversal_time \in Sizes :
    /\ built' = [NotBuilt EXCEPT
                   !.type = "MultiBlockTrack",
                   !.num_tracks = num_tracks,
                   !.num_blocks = num_blocks,
                   !.traversal_time = traversal_time,
                   !.capacity = num_tracks * num_blocks,
                   !.err = IF num_blocks = 0 THEN "ZeroDivisionError"
                           ELSE IF ResourceRaises(num_tracks * num_blocks) THEN "ValueError"
                           ELSE "none"]
    /\ UNCHANGED << runVars, registryVars, routeObj, tourObj, compObj >>

\* the most RouteSegment objects made for one route
MaxSegments == 4

\* the components that are added to the route
RouteComps == {"A", "B"}

\* RouteSegment(route, component, prev, next, arrival, departure), followed
\* by the assignments that link the neighbours to it
Linked(objects, component, prev, next) ==
  LET n == Len(objects) + 1
  IN [i \in 1..n |->
        IF i = n THEN [component |-> component, prev |-> prev, next |-> next]
        ELSE [objects[i] EXCEPT !.next = IF i = prev THEN n ELSE @,
                                !.prev = IF i = next THEN n ELSE @]]

\* Route.append(component)
RouteAppendResult(r, component) ==
  LET prev == IF Len(r.segments) = 0 THEN 0 ELSE r.segments[Len(r.segments)]
  IN [segments |-> Append(r.segments, Len(r.objects) + 1),
      objects |-> Linked(r.objects, component, prev, 0),
      err |-> "none",
      op |-> [name |-> "append", component |-> component, idx |-> 0]]

\* Route.insert(component, idx), for idx >= 0: self.segments[idx] raises for
\* an index past the end; the list self.segments is not changed
RouteInsertResult(r, component, idx) ==
  IF idx >= Len(r.segments)
  THEN [r EXCEPT !.err = "IndexError",
                 !.op = [name |-> "insert", component |-> component, idx |-> idx]]
  ELSE [segments |-> r.segments,
        objects |-> Linked(r.objects, component,
                           IF idx = 0 THEN 0 ELSE r.segments[idx], r.segments[idx + 1]),
        err |-> "none",
        op |-> [name |-> "insert", component |-> component, idx |-> idx]]

\* the loop of Route.traverse(): the components yielded from segment s on
RECURSIVE Follow(_, _, _)
Follow(objects, s, fuel) ==
  IF s = 0 \/ fuel = 0 THEN << >>
  ELSE << objects[s].component >> \o Follow(objects, objects[s].next, fuel - 1)

\* list(Route.traverse()): the components of the segments it yields; on a
\* route without segments the generator raises
Traverse(r) ==
  IF Len(r.segments) = 0 THEN [yields |-> << >>, err |-> "RuntimeError"]
  ELSE [yields |-> Follow(r.objects, r.segments[1], Len(r.objects)), err |-> "none"]

RouteNew ==
  /\ routeObj' = EmptyRoute
  /\ UNCHANGED << runVars, registryVars, built, tourObj, compObj >>

RouteAppend ==
  /\ Len(routeObj.objects) < MaxSegments
  /\ \E component \in RouteComps :
       routeObj' = RouteAppendResult(routeObj, component)
  /\ UNCHANGED << runVars, registryVars, built, tourObj, compObj >>

RouteInsert ==
  /\ Len(routeObj.objects) < MaxSegments
  /\ \E component \in RouteComps, idx \in 0..MaxSegments :
       routeObj' = RouteInsertResult(routeObj, component, idx)
  /\ UNCHANGED << runVars, registryVars, built, tourObj, compObj >>

NextRoute ==
  \/ RouteNew
  \/ RouteAppend
  \/ RouteInsert

\* TourSegment(tour, route, prev, next), followed by the assignments that
\* link the neighbours to it
LinkedTour(objects, route, prev, next) ==
  LET n == Len(objects) + 1
  IN [i \in 1..n |->
        IF i = n THEN [route |-> route, prev |-> prev, next |-> next]
        ELSE [objects[i] EXCEPT !.next = IF i = prev THEN n ELSE @,
                                !.prev = IF i = next THEN n ELSE @]]

\* Tour.append(route) on a tour whose segments are objects: the checks of
\* TourAppend, then the new segment is linked and stored in the list
TourAppendLinked(t, route) ==
  LET n == Len(t.tour_segments)
      prev == IF n = 0 THEN 0 ELSE t.tour_segments[n]
      last == IF n = 0 THEN << >> ELSE t.objects[prev].route
      op == [name |-> "append", route |-> route, idx |-> 0]
  IN IF n > 0 /\ (last = << >> \/ route = << >>)
     THEN [t EXCEPT !.err = "IndexError", !.op = op]
     ELSE IF n > 0 /\ last[Len(last)] # route[1]
          THEN [t EXCEPT !.err = "InputMismatchError", !.op = op]
          ELSE IF route = << >>
          THEN [t EXCEPT !.err = "RuntimeError", !.op = op]
          ELSE [tour_segments |-> Append(t.tour_segments, Len(t.objects) + 1),
                objects |-> LinkedTour(t.objects, route, prev, 0),
                err |-> "none",
                op |-> op]

\* Tour.insert(route, idx), for idx >= 0: self.tour_segments[idx] raises for
\* an index past the end, TourSegment.__init__ for an empty route; the list
\* self.tour_segments is not changed
TourInsert(t, route, idx) ==
  LET op == [name |-> "insert", route |-> route, idx |-> idx]
  IN IF idx >= Len(t.tour_segments)
     THEN [t EXCEPT !.err = "IndexError", !.op = op]
     ELSE IF route = << >>
          THEN [t EXCEPT !.err = "RuntimeError", !.op = op]
          ELSE [tour_segments |-> t.tour_segments,
                objects |-> LinkedTour(t.objects, route,
                                       IF idx = 0 THEN 0 ELSE t.tour_segments[idx],
                                       t.tour_segments[idx + 1]),
                err |-> "none",
                op |-> op]

NewLinkedTour ==
  /\ tourObj' = EmptyLinkedTour
  /\ UNCHANGED << runVars, registryVars, built, routeObj, compObj >>

AppendLinkedRoute ==
  /\ Len(tourObj.objects) < MaxRoutes
  /\ \E route \in LoadRoutes :
       tourObj' = TourAppendLinked(tourObj, route)
  /\ UNCHANGED << runVars, registryVars, built, routeObj, compObj >>

InsertRoute ==
  /\ Len(tourObj.objects) < MaxRoutes
  /\ \E route \in LoadRoutes, idx \in 0..MaxRoutes :
       tourObj' = TourInsert(tourObj, route, idx)
  /\ UNCHANGED << runVars, registryVars, built, routeObj, compObj >>

NextTourInsert ==
  \/ NewLinkedTour
  \/ AppendLinkedRoute
  \/ InsertRoute

\* the jitter classes a component is given
JitterNames == {"NoJitter", "UniformJitter"}

\* the traversal times and capacities a TimedTrack is built with
DictTimes == 1..3

DictCapacities == 1..2

\* the instance attributes after TimedTrack.__init__: the setter's
\* _traversal_time, ResourceComponent's _res (its capacity stands for the
\* resource), BaseComponent's _agents, _jitter and _collection, BaseItem's
\* _model, _uid and loggers
TimedTrackDict(uid, traversal_time, capacity, jitter) ==
  [k \in {"_traversal_time", "_res", "_agents", "_jitter", "_collection", "_model",
          "_uid", "logger", "simLog"} |->
     CASE k = "_traversal_time" -> << traversal_time >>
       [] k = "_res" -> << capacity >>
       [] k = "_agents" -> << >>
       [] k = "_jitter" -> << jitter >>
       [] k = "_collection" -> << "None" >>
       [] k = "_uid" -> << uid >>
       [] OTHER -> << k >>]

\* the keys as_dict() pops from self.__dict__
PoppedKeys == {"_res", "_agents", "simLog", "logger", "_model"}

\* k.lstrip("_")
LStrip(k) ==
  CASE k = "_traversal_time" -> "traversal_time"
    [] k = "_res" -> "res"
    [] k = "_agents" -> "agents"
    [] k = "_jitter" -> "jitter"
    [] k = "_collection" -> "collection"
    [] k = "_model" -> "model"
    [] k = "_uid" -> "uid"
    [] OTHER -> k

\* the dictionary as_dict() returns for the attributes left in d
Clean(d) ==
  [type |-> "TimedTrack",
   uid |-> d["_uid"][1],
   jitter |-> d["_jitter"][1],
   args |-> [a \in { LStrip(k) : k \in { j \in DOMAIN d : LStrip(j) \notin {"uid", "jitter"} } }
               |-> d[CHOOSE k \in DOMAIN d : LStrip(k) = a]]]

\* Model.add_components_from_list([c]) for a dictionary as_dict() returned:
\* c has a "jitter" key, and c["jitter"]["type"] indexes the string that
\* as_dict() stored there
AddComponentFromDict(c) == "TypeError"

\* TimedTrack(model, uid, traversal_time, capacity, jitter)
DictNew ==
  \E uid \in Uids, traversal_time \in DictTimes, capacity \in DictCapacities,
     jitter \in JitterNames :
    /\ compObj' = [NoComponent EXCEPT
                     !.attrs = TimedTrackDict(uid, traversal_time, capacity, jitter),
                     !.op = "TimedTrack"]
    /\ UNCHANGED << runVars, registryVars, built, routeObj, tourObj >>

\* BaseComponent.accept_agent(agent): self._agents[agent.uid] = agent
DictAcceptAgent ==
  /\ compObj.op # "none"
  /\ \E t \in Trains :
       compObj' =
         IF "_agents" \in DOMAIN compObj.attrs
         THEN [compObj EXCEPT !.attrs["_agents"] =
                                 IF \E i \in 1..Len(@) : @[i] = t THEN @ ELSE Append(@, t),
                              !.op = "accept_agent", !.err = "none"]
         ELSE [compObj EXCEPT !.op = "accept_agent", !.err = "AttributeError"]
  /\ UNCHANGED << runVars, registryVars, built, routeObj, tourObj >>

\* BaseComponent.as_dict(): d is self.__dict__ itself, so the pops remove
\* the attributes from the component
AsDict ==
  /\ compObj.op # "none"
  /\ LET d == [k \in DOMAIN compObj.attrs \ PoppedKeys |-> compObj.attrs[k]]
     IN compObj' = [compObj EXCEPT !.attrs = d, !.op = "as_dict", !.err = "none",
                                   !.dict = Clean(d)]
  /\ UNCHANGED << runVars, registryVars, built, routeObj, tourObj >>

\* Model.add_components_from_list on the dictionary as_dict() returned
DictRebuild ==
  /\ compObj.dict # NoDict
  /\ compObj' = [compObj EXCEPT !.op = "add_components_from_list",
                                !.rebuilt = AddComponentFromDict(compObj.dict)]
  /\ UNCHANGED << runVars, registryVars, built, routeObj, tourObj >>

NextAsDict ==
  \/ DictNew
  \/ DictAcceptAgent
  \/ AsDict
  \/ DictRebuild

NextBuild ==
  \/ NewTimedTrack
  \/ NewSimpleCrossover
  \/ NewPhysicsTrack
  \/ NewMultiBlockTrack

\* a model that has not been started, with no train in its fleet
InitLoad ==
  /\ Init
  /\ tourOf = [t \in Trains |-> NoTour]
  /\ numTracks = 2

NextLoad ==
  \/ AddTour
  \/ AddTrain
  \/ NewTour
  \/ AppendRoute

SpecLoad == InitLoad /\ [][NextLoad]_vars

\* loading the tours of a timetable
SpecTimetable == InitLoad /\ [][AddTimedTour]_vars

\* building a route
SpecRoute == InitLoad /\ [][NextRoute]_vars

\* building a tour with append and insert
SpecTourInsert == InitLoad /\ [][NextTourInsert]_vars

\* a component and its dictionary
SpecAsDict == InitLoad /\ [][NextAsDict]_vars

\* constructing components
SpecBuild == InitLoad /\ [][NextBuild]_vars

TypeOK ==
  /\ now \in 0..MaxTime
  /\ \A c \in Comps : agents[c] \subseteq Trains

\* ---------------------------------------------------------------------
\* Properties
\* ---------------------------------------------------------------------
IsPrefix(p, q) == Len(p) <= Len(q) /\ SubSeq(q, 1, Len(p)) = p

\* the train's process is between its start and its end
Running(t) == pc[t] \in {"arrival", "request", "do", "departure"}

OccupantSets(t) == { c \in Comps : t \in agents[c] }

Holding(t) == \E c \in Comps : Contains(users[c], t)

InsideZone(t, z) == cur[t] # NoSeg /\ CollectionOf(SegComp(cur[t])) = z

\* C1: a running train that has entered its first segment is in the
\* occupant set of exactly one component, the one of its current segment
C1_ExactlyOneOccupantSet ==
  \A t \in Trains :
    (Running(t) /\ cur[t] # NoSeg) => OccupantSets(t) = { SegComp(cur[t]) }

\* C2: the occupant set of a component never holds more agents than the
\* capacity of the component's resource
C2_OccupantsWithinCapacity ==
  \A c \in Comps : Cardinality(agents[c]) <= Capacity(c)

\* C3: the granted requests of a resource never exceed its capacity
C3_UsersWithinCapacity ==
  \A c \in Comps : Len(users[c]) <= Capacity(c)

\* a resource is full while a request is waiting for it
C3_Witness ==
  \E c \in Comps : Len(users[c]) = Capacity(c) /\ putQueue[c] # << >>

\* C4: at most one train has its current segment in a BlockExclusiveZone
C4_ZoneExclusive ==
  \A z \in Zones : Cardinality({ t \in Trains : InsideZone(t, z) }) <= 1

\* a train is inside the zone while another one waits in the zone's queue
C4_Witness ==
  \E z \in Zones : \E t \in Trains :
    InsideZone(t, z) /\ occupied[z] /\ waitQueue[z] # << >>

\* C5: a zone is occupied exactly while a running train is inside it; a
\* train counts as inside from the grant of a request for a component of
\* the zone on
C5_OccupiedIffInside ==
  \A z \in Zones :
    occupied[z] <=>
      \E t \in Trains :
        /\ Running(t)
        /\ \/ InsideZone(t, z)
           \/ \E c \in Comps : CollectionOf(c) = z /\ Contains(users[c], t)

\* C6: a train gives up a granted request only when it ends its tour or
\* when it already held, before that step, the request of the segment it
\* has moved to, and still holds it
C6_AcquireBeforeRelease ==
  [][ \A t \in Trains : \A c \in Comps :
        Count(users'[c], t) < Count(users[c], t) =>
          \/ pc'[t] = "done"
          \/ /\ cur'[t] # NoSeg
             /\ SegComp(cur'[t]) # c
             /\ Contains(users[SegComp(cur'[t])], t)
             /\ Contains(users'[SegComp(cur'[t])], t) ]_vars

\* a train has moved on and released the request of the segment before
C6_Witness ==
  \E t \in Trains :
    /\ pc[t] = "do"
    /\ SegPrev(cur[t]) # NoSeg
    /\ ~Contains(users[SegComp(SegPrev(cur[t]))], t)
    /\ Contains(users[SegComp(cur[t])], t)

\* the admission predicate, stated on what a _do_put evaluation saw
Admissible(e) ==
  \/ CollectionOf(e.comp) = NoZone
  \/ (e.cur # NoSeg /\ CollectionOf(SegComp(e.cur)) = CollectionOf(e.comp))
  \/ (~e.occupied /\ (e.waitQueue = << >> \/ Head(e.waitQueue) = e.agent))

\* C7: a request joins users only by a _do_put that saw fewer users than
\* the capacity and an admitting predicate; a request that is not granted
\* is not in users afterwards and is still in the wait queue
C7_GrantOnlyWhenAdmissible ==
  [][ /\ \A c \in Comps : \A t \in Trains :
           Count(users'[c], t) > Count(users[c], t) =>
             \E i \in 1..Len(putLog') :
               putLog'[i].comp = c /\ putLog'[i].agent = t /\ putLog'[i].granted
      /\ \A i \in 1..Len(putLog') :
           LET e == putLog'[i]
           IN /\ e.granted => (Len(e.users) < Capacity(e.comp) /\ Admissible(e))
              /\ ~e.granted =>
                   /\ Contains(putQueue'[e.comp], e.agent)
                   /\ Count(users'[e.comp], e.agent) = Count(e.users, e.agent) ]_vars

\* a request was refused by the predicate although the resource had room
C7_Witness ==
  \E i \in 1..Len(putLog) :
    ~putLog[i].granted /\ Len(putLog[i].users) < Capacity(putLog[i].comp)

\* C8: only the oldest pending request of a resource is granted, and the
\* wait queue changes only by losing a granted head and by new requests
\* joining at the tail
C8_GrantedInRequestOrder ==
  [][ \A c \in Comps :
        /\ \A t \in Trains :
             Count(users'[c], t) > Count(users[c], t) =>
               (putQueue[c] = << >> \/ Head(putQueue[c]) = t)
        /\ \/ IsPrefix(putQueue[c], putQueue'[c])
           \/ /\ putQueue[c] # << >>
              /\ IsPrefix(Tail(putQueue[c]), putQueue'[c])
              /\ Count(users'[c], Head(putQueue[c])) >
                   Count(users[c], Head(putQueue[c])) ]_vars

\* the oldest of several waiting requests was refused by the predicate,
\* and the queue is as it was
C8_Witness ==
  \E i \in 1..Len(putLog) :
    /\ ~putLog[i].granted
    /\ Len(putLog[i].users) < Capacity(putLog[i].comp)
    /\ Len(putLog[i].putQueue) >= 2
    /\ putQueue[putLog[i].comp] = putLog[i].putQueue

\* C9: a train's current segment becomes a segment with a scheduled
\* arrival no earlier than that arrival
C9_ArrivalRespected ==
  [][ \A t \in Trains :
        (cur'[t] # cur[t] /\ SegArrival(cur'[t]) # NoTime) =>
          now' >= SegArrival(cur'[t]) ]_vars

\* a train has entered a segment with a scheduled arrival
C9_Witness ==
  \E t \in Trains :
    cur[t] # NoSeg /\ SegArrival(cur[t]) # NoTime /\ now >= SegArrival(cur[t])

\* C10: the request of a segment with a scheduled departure is released
\* no earlier than that departure, and it is held during the hold
C10_DepartureRespected ==
  [][ /\ \A t \in Trains :
           (cur[t] # NoSeg
              /\ Count(users'[SegComp(cur[t])], t) < Count(users[SegComp(cur[t])], t)
              /\ segDeparture'[cur[t]] # NoTime) =>
             now' >= segDeparture'[cur[t]]
      /\ \A t \in Trains :
           pc'[t] = "departure" => Contains(users'[SegComp(cur'[t])], t) ]_vars

\* a train has waited for a scheduled departure and released the request
C10_Witness ==
  \E t \in Trains :
    /\ pc[t] = "done"
    /\ segDeparture[cur[t]] # NoTime
    /\ now = segDeparture[cur[t]]
    /\ ~Contains(users[SegComp(cur[t])], t)

\* the records of one kind that a train wrote for a component
LogTimes(t, k, c) ==
  { agentLog[t][i].time : i \in { j \in 1..Len(agentLog[t]) :
                                    agentLog[t][j].kind = k /\ agentLog[t][j].comp = c } }

TrackEmpty(k) == \A b \in 1..NumBlocks : blocks[k][b] = NoAgent

\* C11: a track of the MultiBlockTrack has no direction exactly when none
\* of its blocks holds an agent
C11_DirectionIffOccupied ==
  \A k \in DOMAIN blocks : trackDirections[k] = 0 <=> TrackEmpty(k)

\* a train has gone through the MultiBlockTrack and has left it; one track
\* is without direction again while another one has a direction
C11_Witness ==
  /\ \E t \in Trains : LogTimes(t, "OUT", "M") # {} /\ trackAssignments[t] = 0
                         /\ LogTimes(t, "IN", "F") # {}
  /\ \E k \in DOMAIN blocks : trackDirections[k] = 0
  /\ \E k \in DOMAIN blocks : trackDirections[k] # 0

\* the names in use in the model's registries
TrainUids == { trainReg[i] : i \in 1..Len(trainReg) }

\* C12: creating a train under the uid of an existing train or the name of
\* an existing tour raises NotUniqueIDError and leaves the train registry
\* unchanged, and registering a tour under the name of an existing tour or
\* train fails too and leaves the earlier entry in place
C12_DuplicateUidFails ==
  [][ /\ (lastOp'.op = "add_train" /\ lastOp'.name \in TrainUids \cup DOMAIN tourReg)
         => (raised' = "NotUniqueIDError" /\ trainReg' = trainReg)
      /\ (lastOp'.op = "add_tour" /\ lastOp'.name \in TrainUids \cup DOMAIN tourReg)
         => (raised' # "none" /\ tourReg' = tourReg) ]_vars

\* the times of the stop events in the queue: the `until` of the run in progress
StopTimes == { queue[i].time : i \in { j \in 1..Len(queue) : queue[j].kind = "stop" } }

\* C13: after start() and run(until = T) with T > now, now is T when run
\* returns, whatever is still waiting or pending, and now never decreases
C13_RunUntil ==
  [][ /\ now' >= now
      /\ (running /\ ~running') => StopTimes = {now'}
      /\ running' => \A T \in StopTimes' : now' <= T ]_vars

\* a run has returned at its `until` while a train is still waiting for a
\* resource and events of later times are pending
C13_Witness ==
  /\ started /\ ~running /\ ~crashed
  /\ now \in UntilTimes
  /\ \E c \in Comps : putQueue[c] # << >>
  /\ \E i \in 1..Len(queue) : queue[i].time > now

Max(a, b) == IF a >= b THEN a ELSE b

Last(q) == q[Len(q)]

\* a schedule time, 0 when it is not set
OrZero(n) == IF n = NoTime THEN 0 ELSE n

\* t is the only train of the model and its tour has TimedTracks only
Alone(t) ==
  /\ Fleet = {t}
  /\ \A s \in SegIds : s[1] = tourOf[t] => ~IsMultiBlock(SegComp(s))

\* C14: a train that runs alone over TimedTracks without jitter enters a
\* segment at max(exit time of the previous segment, arrival) and leaves
\* it at max(entry time + traversal_time, departure); so tracks of 2 and 2
\* in series are left at 4, and a track of 1 entered at 1 with departure 5
\* is left at 5
C14_SoloTimes ==
  [][ \A t \in Trains :
        /\ (Alone(t) /\ Len(agentLog'[t]) = Len(agentLog[t]) + 1) =>
             IF Last(agentLog'[t]).kind = "IN"
             THEN Last(agentLog'[t]).time =
                    Max(IF agentLog[t] = << >> THEN 0 ELSE Last(agentLog[t]).time,
                        OrZero(SegArrival(seg'[t])))
             ELSE lastJitter[t] = 0 =>
                    Last(agentLog'[t]).time =
                      Max(Last(agentLog[t]).time + TraversalTime(Last(agentLog'[t]).comp),
                          OrZero(segDeparture[seg[t]]))
        /\ (Alone(t) /\ tourOf[t] = 5) =>
             LogTimes(t, "OUT", "G")' \subseteq { TraversalTime("F") + TraversalTime("G") }
        /\ (Alone(t) /\ tourOf[t] = 2) =>
             LogTimes(t, "OUT", "C")' \subseteq { InitDeparture(<<2, 1, 2>>) } ]_vars

\* a train that ran alone has left the last segment of its tour after a
\* departure hold, and no jitter was drawn
C14_Witness ==
  \E t \in Trains :
    /\ Alone(t) /\ tourOf[t] = 2 /\ lastJitter[t] = 0
    /\ LogTimes(t, "IN", "C") = {2}
    /\ LogTimes(t, "OUT", "C") = {5}

\* a and b are the only trains, both on tour T, a started before b
Pair(a, b, T) == a < b /\ Fleet = {a, b} /\ tourOf[a] = T /\ tourOf[b] = T

\* C15: two trains started at 0 on two capacity-1 TimedTracks F and G in
\* series (traversal time 2 each): the second train is admitted to F only
\* when the first has been admitted to G, the first leaves G at 4 and the
\* second at 6
C15_SecondFollowsFirst ==
  \A a, b \in Trains :
    Pair(a, b, 5) =>
      /\ Contains(users["F"], b) => LogTimes(a, "IN", "G") # {}
      /\ LogTimes(b, "IN", "F") \subseteq LogTimes(a, "IN", "G")
      /\ LogTimes(a, "OUT", "G") \subseteq { 2 * TraversalTime("F") }
      /\ LogTimes(b, "OUT", "G") \subseteq { 3 * TraversalTime("F") }

\* both trains have left G, the second one traversal time after the first
C15_Witness ==
  \E a, b \in Trains :
    /\ Pair(a, b, 5)
    /\ LogTimes(a, "OUT", "G") = {4}
    /\ LogTimes(b, "IN", "F") = {2}
    /\ LogTimes(b, "OUT", "G") = {6}

\* trains 1, 2 and 3 go E -> M -> F and request M at 1, 2 and 4; M has two
\* tracks of three blocks, 2 time units per block
ThreeOnTwoTracks == numTracks = 2 /\ tourOf = <<6, 7, 8>>

\* C16: three trains request a MultiBlockTrack of two tracks and three
\* blocks from the same end, the second while the first is in the entry
\* block and the third after the second was let in: the first two share a
\* track, the third takes the other one, no exception is raised, and they
\* finish the component one traversal time after their admission, at 7, 9
\* and 10
C16_ThreeTrainsTwoTracks ==
  ThreeOnTwoTracks =>
    /\ ~crashed
    /\ \A t \in Trains : pc[t] # "failed"
    /\ (trackAssignments[1] # 0 /\ trackAssignments[2] # 0)
         => trackAssignments[1] = trackAssignments[2]
    /\ (trackAssignments[2] # 0 /\ trackAssignments[3] # 0)
         => trackAssignments[2] # trackAssignments[3]
    /\ LogTimes(1, "OUT", "M") \subseteq {7}
    /\ LogTimes(2, "OUT", "M") \subseteq {9}
    /\ LogTimes(3, "OUT", "M") \subseteq {10}

\* C17: two trains on the tour B -> C, both components in one
\* BlockExclusiveZone: the second train is not admitted to B before the
\* first has released C, and it is admitted at the time of that release
C17_ZoneSecondTrain ==
  \A a, b \in Trains :
    Pair(a, b, 2) =>
      /\ Contains(users["B"], b) => LogTimes(a, "OUT", "C") # {}
      /\ LogTimes(b, "IN", "B") \subseteq LogTimes(a, "OUT", "C")
      /\ (\E n \in LogTimes(a, "OUT", "C") : now > n) => LogTimes(b, "IN", "B") # {}

\* the segments of tour T merged route by route: the first route, then
\* each later route without its first segment
Merged(T) ==
  LET R == TourRoutes[T]
      Upto[r \in 1..Len(R)] ==
        IF r = 1
        THEN [i \in 1..Len(R[1]) |-> <<T, 1, i>>]
        ELSE Upto[r - 1] \o [i \in 1..(Len(R[r]) - 1) |-> <<T, r, i + 1>>]
  IN Upto[Len(R)]

\* s is the last segment of a route that is followed by another route
Bridging(s) == s[3] = Len(TourRoutes[s[1]][s[2]]) /\ s[2] < Len(TourRoutes[s[1]])

\* C18: Tour.traverse() yields the segments of the first route and then
\* those of each later route without its first segment, and a bridging
\* segment is yielded with the departure of the later route's first segment
C18_TraverseMerged ==
  \A t \in Fleet :
    /\ IsPrefix(yielded[t], Merged(tourOf[t]))
    /\ \A i \in 1..Len(yielded[t]) :
         Bridging(yielded[t][i]) =>
           segDeparture[yielded[t][i]]
             = InitDeparture(<<yielded[t][i][1], yielded[t][i][2] + 1, 1>>)

\* C19: traversing a tour does not change it: every route segment keeps
\* the next link and the departure it was loaded with, whatever the trains
\* have traversed so far
C19_TourUnchanged ==
  /\ segNext = [s \in SegIds |-> InitNext(s)]
  /\ segDeparture = [s \in SegIds |-> InitDeparture(s)]

\* C20: Tour.append(route) on a non-empty tour whose last route ends at
\* another component than the one route starts with raises
\* InputMismatchError and leaves the tour segments and their links as they
\* were; when the components match, the tour grows by exactly one tour
\* segment, linked after the previous last one
C20_AppendChecked ==
  [][ ( /\ lastOp'.op = "append"
        /\ tourSegs # << >>
        /\ Last(tourSegs).route # << >>
        /\ lastOp'.routes[1] # << >> ) =>
      IF Last(Last(tourSegs).route) # lastOp'.routes[1][1]
      THEN raised' = "InputMismatchError" /\ tourSegs' = tourSegs
      ELSE /\ raised' = "none"
           /\ Len(tourSegs') = Len(tourSegs) + 1
           /\ \A i \in 1..(Len(tourSegs) - 1) : tourSegs'[i] = tourSegs[i]
           /\ tourSegs'[Len(tourSegs)] = [Last(tourSegs) EXCEPT !.next = Len(tourSegs) + 1]
           /\ Last(tourSegs') = [route |-> lastOp'.routes[1], prev |-> Len(tourSegs),
                                 next |-> 0] ]_vars

\* a tour that grew by a matching route has refused a route that does not
\* start where its last route ends
C20_Witness ==
  /\ lastOp.op = "append"
  /\ raised = "InputMismatchError"
  /\ Len(tourSegs) = 2
  /\ tourSegs[1].next = 2
  /\ tourSegs[2].prev = 1
  /\ Last(tourSegs[1].route) = tourSegs[2].route[1]
  /\ Last(tourSegs[2].route) # lastOp.routes[1][1]

\* the routes of the record follow each other and none is empty
Chained(routes) ==
  /\ \A r \in 1..Len(routes) : routes[r] # << >>
  /\ \A r \in 1..(Len(routes) - 1) : Last(routes[r]) = routes[r + 1][1]

\* a route of the record has not one args entry per component
ArgsMismatch(op) == \E r \in 1..Len(op.routes) : Len(op.args[r]) # Len(op.routes[r])

\* C21: a tour record in which a route has not one args entry per component
\* raises InputMismatchError and registers nothing; a record whose numbers
\* match is registered, the i-th args entry gives the arrival and departure
\* of the i-th segment, and a null entry gives a segment with neither
C21_ArgsPerComponent ==
  [][ lastOp'.op = "add_tour" =>
      /\ (ArgsMismatch(lastOp') /\ \A r \in 1..Len(lastOp'.routes) : lastOp'.routes[r] # << >>)
           => (raised' = "InputMismatchError" /\ tourReg' = tourReg
               /\ routeSegs' = routeSegs)
      /\ (~ArgsMismatch(lastOp') /\ Chained(lastOp'.routes)) =>
           /\ raised' = "none"
           /\ lastOp'.name \in DOMAIN tourReg'
           /\ Len(routeSegs'[lastOp'.name]) = Len(lastOp'.routes)
           /\ \A r \in 1..Len(lastOp'.routes) :
                /\ Len(routeSegs'[lastOp'.name][r]) = Len(lastOp'.routes[r])
                /\ \A i \in 1..Len(lastOp'.routes[r]) :
                     routeSegs'[lastOp'.name][r][i] =
                       IF lastOp'.args[r][i] = NullArgs
                       THEN [component |-> lastOp'.routes[r][i], arrival |-> NoTime,
                             departure |-> NoTime]
                       ELSE [component |-> lastOp'.routes[r][i],
                             arrival |-> lastOp'.args[r][i].arrival,
                             departure |-> lastOp'.args[r][i].departure] ]_vars

\* a tour with a null and a timed args entry is registered, and a later
\* record with a wrong number of args was refused
C21_Witness ==
  /\ lastOp.op = "add_tour" /\ ArgsMismatch(lastOp)
  /\ raised = "InputMismatchError"
  /\ "x" \in DOMAIN routeSegs
  /\ \E r \in 1..Len(routeSegs["x"]) :
       /\ Len(routeSegs["x"][r]) = 2
       /\ routeSegs["x"][r][1].arrival = NoTime
       /\ routeSegs["x"][r][2].departure = TimedArgs.departure

\* the blocks of the MultiBlockTrack that hold train t
BlocksOf(t) == { <<k, b>> \in (DOMAIN blocks) \X (1..NumBlocks) : blocks[k][b] = t }

\* C22: a train whose process has ended after the final segment of its
\* tour is in no occupant set, holds no request, occupies no block, and a
\* zone is not left occupied when every train has ended
C22_NothingHeldAfterTour ==
  /\ \A t \in Trains :
       pc[t] = "done" => (OccupantSets(t) = {} /\ ~Holding(t) /\ BlocksOf(t) = {})
  /\ \A z \in Zones : occupied[z] => \E t \in Fleet : pc[t] # "done"

\* C23: the acceptance state of a component is assigned once per
\* admission, when the request is granted: the transfer of the train to a
\* MultiBlockTrack assigns no track and fills no block again, and a train
\* is never in two blocks
C23_AcceptedOnce ==
  [][ \A t \in Trains :
        /\ (cur'[t] # cur[t] /\ cur'[t] # NoSeg /\ IsMultiBlock(SegComp(cur'[t])))
             => (trackAssignments'[t] = trackAssignments[t] /\ blocks' = blocks)
        /\ Cardinality(BlocksOf(t)') <= 1 ]_vars

\* the granted request of t is processed and takes t out of zone z
LeavesZone(t, z) ==
  /\ InsideZone(t, z)
  /\ pc[t] = "request" /\ pc'[t] # "request"
  /\ CollectionOf(SegComp(seg[t])) # z

\* C24: when a train leaves a zone whose wait queue is not empty, no error
\* is raised, also when the head of the wait queue has not entered any
\* component yet; the zone is unoccupied afterwards unless the head was
\* admitted in the same step, and the head is admitted when the resource it
\* waits for has a free slot
C24_ZoneHandover ==
  [][ \A z \in Zones, t \in Trains :
        (LeavesZone(t, z) /\ waitQueue[z] # << >>) =>
          /\ pc'[t] = "do"
          /\ occupied'[z] => ~Contains(waitQueue'[z], Head(waitQueue[z]))
          /\ \A c \in Comps :
               (putQueue[c] # << >> /\ Head(putQueue[c]) = Head(waitQueue[z])
                  /\ Len(users[c]) < Capacity(c))
               => Contains(users'[c], Head(waitQueue[z])) ]_vars

\* the step grants t a request for a component of z that t enters from
\* outside z
Admitted(t, z) ==
  /\ ~InsideZone(t, z)
  /\ \E c \in Comps : /\ CollectionOf(c) = z
                       /\ ~Contains(users[c], t) /\ Contains(users'[c], t)

\* C25: a train that enters a zone from outside is granted only by an
\* evaluation that saw the zone unoccupied and the train first in the wait
\* queue (the queue empty before the evaluation enqueued it, or the train
\* at its head); after the step it is off the wait queue and occupied is
\* true; no train is on the wait queue twice; the trains that leave the
\* wait queue are a prefix of it and are the admitted ones
C25_ZoneAdmission ==
  [][ \A z \in Zones :
        /\ \A i \in 1..Len(putLog') :
             LET r == putLog'[i]
             IN (r.granted /\ CollectionOf(r.comp) = z
                   /\ (r.cur = NoSeg \/ CollectionOf(SegComp(r.cur)) # z))
                => (~r.occupied /\ (r.waitQueue = << >> \/ Head(r.waitQueue) = r.agent))
        /\ \A t \in Trains :
             Admitted(t, z) => (occupied'[z] /\ ~Contains(waitQueue'[z], t))
        /\ \A t \in Trains : Count(waitQueue'[z], t) <= 1
        /\ \E k \in 0..Len(waitQueue[z]) :
             /\ Len(waitQueue'[z]) >= Len(waitQueue[z]) - k
             /\ \A i \in 1..(Len(waitQueue[z]) - k) : waitQueue'[z][i] = waitQueue[z][k + i]
             /\ \A i \in 1..k : Admitted(waitQueue[z][i], z) ]_vars

\* a train that waited on the wait queue behind the occupant has been
\* admitted from its head, while another train is still waiting
C25_Witness ==
  \E z \in Zones, t \in Trains, u \in Trains :
    /\ \E i \in 1..Len(putLog) :
         /\ putLog[i].granted /\ putLog[i].agent = t
         /\ CollectionOf(putLog[i].comp) = z
         /\ Len(putLog[i].waitQueue) >= 2 /\ Head(putLog[i].waitQueue) = t
    /\ occupied[z] /\ ~Contains(waitQueue[z], t)
    /\ Contains(waitQueue[z], u)

\* C26: for a train that is in a zone and asks for another component of
\* the same zone, the admission predicate is true whatever occupied is (an
\* evaluation that finds a free slot grants the request), and neither the
\* step that grants the request nor the step that transfers the train
\* changes occupied or the wait queue
C26_MoveInsideZone ==
  [][ \A z \in Zones :
        /\ \A i \in 1..Len(putLog') :
             LET r == putLog'[i]
             IN (CollectionOf(r.comp) = z /\ r.cur # NoSeg
                   /\ CollectionOf(SegComp(r.cur)) = z
                   /\ Len(r.users) < Capacity(r.comp))
                => r.granted
        /\ \A t \in Trains :
             (InsideZone(t, z) /\ seg[t] # NoSeg /\ CollectionOf(SegComp(seg[t])) = z
                /\ \/ \E c \in Comps : ~Contains(users[c], t) /\ Contains(users'[c], t)
                   \/ cur'[t] # cur[t])
             => (occupied'[z] = occupied[z] /\ waitQueue'[z] = waitQueue[z]) ]_vars

\* a train has moved from B to C while another train waits for the zone
C26_Witness ==
  \E z \in Zones, t \in Trains :
    /\ InsideZone(t, z) /\ SegPrev(cur[t]) # NoSeg
    /\ CollectionOf(SegComp(SegPrev(cur[t]))) = z
    /\ pc[t] = "do"
    /\ occupied[z] /\ waitQueue[z] # << >>

\* the step runs neither accept_agent (no request is granted, no train is
\* transferred) nor release_agent (no train is transferred)
NoHookRuns ==
  /\ \A i \in 1..Len(putLog') : ~putLog'[i].granted
  /\ \A t \in Trains : pc[t] = "request" => pc'[t] = "request"

\* C27: the state of a zone changes only inside accept_agent and
\* release_agent: a step that only evaluates admission predicates leaves
\* occupied and the wait queue as they were
C27_PredicateIsPure ==
  [][ NoHookRuns =>
        \A z \in Zones : occupied'[z] = occupied[z] /\ waitQueue'[z] = waitQueue[z] ]_vars

\* C28: a train whose request for a MultiBlockTrack was granted is given a
\* track without an exception: neither the step that grants the request
\* nor the step that transfers the train makes its process fail
C28_TrackAssignedWithoutRaising ==
  [][ \A t \in Trains :
        (pc[t] = "request" /\ seg[t] # NoSeg /\ IsMultiBlock(SegComp(seg[t]))
           /\ Contains(users[SegComp(seg[t])], t))
        => pc'[t] # "failed" ]_vars

\* the empty blocks of track k before the first occupied one, counted from
\* the entry side of direction d
Gap(k, d) ==
  IF d = 1
  THEN Cardinality({ b \in 1..NumBlocks : \A b2 \in 1..b : blocks[k][b2] = NoAgent })
  ELSE Cardinality({ b \in 1..NumBlocks : \A b2 \in b..NumBlocks : blocks[k][b2] = NoAgent })

\* the track of the placement rule for direction d, 0 if there is none
RuleTrack(d) ==
  LET same == { k \in 1..numTracks : trackDirections[k] = d /\ Gap(k, d) > 0 }
      free == { k \in 1..numTracks : trackDirections[k] = 0 }
  IN IF same # {}
     THEN CHOOSE k \in same : \A k2 \in same :
            Gap(k, d) < Gap(k2, d) \/ (Gap(k, d) = Gap(k2, d) /\ k <= k2)
     ELSE IF free # {} THEN CHOOSE k \in free : \A k2 \in free : k <= k2
          ELSE 0

\* the step in which t asks for the MultiBlockTrack c and is granted at once
GrantedAtRequest(t, c) ==
  /\ IsMultiBlock(c)
  /\ pc[t] # "request" /\ pc'[t] = "request"
  /\ ~Contains(users[c], t) /\ Contains(users'[c], t)

\* the direction in which t will run through c, from the components before
\* and after c on its tour
RunDirection(t, c) ==
  Direction(IF cur[t] = NoSeg THEN NoComp ELSE SegComp(cur[t]),
            IF segNext'[seg'[t]] = NoSeg THEN NoComp ELSE SegComp(segNext'[seg'[t]]),
            NodeU(c), NodeV(c))

\* C29: an admitted train is placed in the entry block of the track of the
\* placement rule (same direction with the smallest non-zero gap, lowest
\* index on ties, else the lowest directionless track), that block was
\* empty before, and when the train is transferred into the component it
\* is on that track, in its entry block and in no other block
C29_PlacementRule ==
  [][ \A t \in Trains, c \in Comps :
        /\ GrantedAtRequest(t, c) =>
             LET d == RunDirection(t, c)
                 k == RuleTrack(d)
             IN /\ k # 0
                /\ blocks[k][EntryBlock(d)] = NoAgent
                /\ blocks'[k][EntryBlock(d)] = t
                /\ trackAssignments'[t] = k
        /\ (IsMultiBlock(c) /\ pc[t] = "request" /\ cur'[t] # cur[t]
              /\ cur'[t] # NoSeg /\ SegComp(cur'[t]) = c)
           => /\ trackAssignments'[t] = trackAssignments[t]
              /\ \A k \in 1..numTracks, b \in 1..NumBlocks :
                   blocks'[k][b] = t => k = trackAssignments[t] ]_vars

\* the step takes a train out of the entry block of track k
EntryVacated(k) ==
  /\ trackDirections[k] # 0
  /\ blocks[k][EntryBlock(trackDirections[k])] # NoAgent
  /\ blocks'[k][EntryBlock(trackDirections[k])] # blocks[k][EntryBlock(trackDirections[k])]

\* the oldest request for c could be granted in this state
HeadAdmissible(c) ==
  /\ putQueue[c] # << >>
  /\ Len(users[c]) < Capacity(c)
  /\ MultiBlockCanAccept(World, c, Head(putQueue[c]))

AtStation(t) ==
  /\ seg[t] # NoSeg /\ IsMultiTrackStation(SegComp(seg[t]))
  /\ Contains(users[SegComp(seg[t])], t)

\* C31: a train admitted to the MultiTrackStation is stopping exactly when
\* the station's route segment has a departure, also when the station is
\* the first or the last segment of the tour: a stopping train is granted
\* only with a free stopping track, it is on a stopping track as long as
\* it is at the station, and its process does not fail there; a bypassing
\* train is granted the first free bypass track, and a stopping track only
\* if no bypass track is free
C31_StoppingBySegmentDeparture ==
  [][ \A t \in Trains :
        /\ AtStation(t)' =>
             /\ pc'[t] # "failed"
             /\ InitDeparture(seg'[t]) # NoTime => stationAssign'[t].kind = "S"
        /\ (~AtStation(t) /\ AtStation(t)') =>
             IF InitDeparture(seg'[t]) # NoTime
             THEN FirstFree(stoppingTracks) # 0
             ELSE stationAssign'[t] =
                    IF FirstFree(bypassTracks) # 0
                    THEN [kind |-> "B", index |-> FirstFree(bypassTracks)]
                    ELSE [kind |-> "S", index |-> FirstFree(stoppingTracks)] ]_vars

\* the dwell of a train that arrives elapsed time units after the
\* previous one
HeadwayDwell(elapsed) ==
  Intercept + BoardingSlope * (elapsed * BoardingRate)
            + AlightingSlope * (elapsed * AlightingRate)

\* C32: the do() of the DynamicHeadwayStation gives the first train the
\* dwell first_train_dwell and every later train the dwell computed from
\* the time since the previous arrival, and it records the arrival time
C32_DwellFromPreviousArrival ==
  [][ \A t \in Trains :
        (lastDwell'[t] # lastDwell[t] /\ cur[t] # NoSeg
           /\ IsDynamicHeadwayStation(SegComp(cur[t])))
        => /\ previousTrainTime' = now'
           /\ lastDwell'[t] = IF previousTrainTime = NoTime
                              THEN FirstTrainDwell
                              ELSE HeadwayDwell(now' - previousTrainTime) ]_vars

\* a size parameter the constructor was given is invalid: a traversal time
\* that is not strictly positive for a TimedTrack or a SimpleCrossover, a
\* capacity, length or track speed of zero or less, a negative number of
\* tracks or of blocks
InvalidSize(b) ==
  \/ b.type \in {"TimedTrack", "SimpleCrossover"} /\ b.traversal_time <= 0
  \/ b.type = "TimedTrack" /\ b.capacity <= 0
  \/ b.type = "PhysicsTrack" /\ (b.length <= 0 \/ b.track_speed <= 0)
  \/ b.type = "MultiBlockTrack" /\ (b.num_tracks < 0 \/ b.num_blocks < 0)

\* C33: a constructor that is given an invalid size parameter ends with an
\* exception, so that no component is built
C33_InvalidSizeFails ==
  InvalidSize(built) => built.err # "none"

\* the list with x put in front of its element at position idx, counted from 0
InsertAt(list, idx, x) ==
  [i \in 1..(Len(list) + 1) |->
     IF i <= idx THEN list[i] ELSE IF i = idx + 1 THEN x ELSE list[i - 1]]

\* the segments Route.traverse() visits from segment s on
RECURSIVE Visited(_, _, _)
Visited(objects, s, fuel) ==
  IF s = 0 \/ fuel = 0 THEN << >>
  ELSE << s >> \o Visited(objects, objects[s].next, fuel - 1)

\* prev and next of the visited segments agree with the order of the visit
LinksConsistent(r) ==
  LET v == IF Len(r.segments) = 0 THEN << >>
           ELSE Visited(r.objects, r.segments[1], Len(r.objects))
  IN \A i \in 1..Len(v) :
       /\ r.objects[v[i]].prev = IF i = 1 THEN 0 ELSE v[i - 1]
       /\ r.objects[v[i]].next = IF i = Len(v) THEN 0 ELSE v[i + 1]

\* C34: append puts the component at the end of what traverse() yields and
\* insert puts it in front of position idx, for every idx from 0 to the
\* length of the route, with prev and next of the yielded segments linked
\* in that order
C34_TraverseInListOrder ==
  [][ /\ routeObj'.op.name = "append"
        => /\ Traverse(routeObj').yields
                = Append(Traverse(routeObj).yields, routeObj'.op.component)
           /\ LinksConsistent(routeObj')
      /\ (routeObj'.op.name = "insert"
             /\ routeObj'.op.idx <= Len(Traverse(routeObj).yields))
        => /\ routeObj'.err = "none"
           /\ Traverse(routeObj').yields
                = InsertAt(Traverse(routeObj).yields, routeObj'.op.idx,
                           routeObj'.op.component)
           /\ LinksConsistent(routeObj') ]_vars

\* the tour segment at list position i (counted from 1) is linked to the
\* segments at the positions next to it, None at the ends
LinkedInList(t, i) ==
  LET list == t.tour_segments
  IN /\ t.objects[list[i]].prev = IF i = 1 THEN 0 ELSE list[i - 1]
     /\ t.objects[list[i]].next = IF i = Len(list) THEN 0 ELSE list[i + 1]
     /\ i > 1 => t.objects[list[i - 1]].next = list[i]
     /\ i < Len(list) => t.objects[list[i + 1]].prev = list[i]

\* C35: Tour.insert(route, idx) of a route with segments, for idx from 0
\* to the number of tour segments (idx 0 on an empty tour included), ends
\* without an exception, leaves one tour segment more, and the segment at
\* position idx is the new one, linked between its neighbours
C35_InsertAddsLinkedSegment ==
  [][ (tourObj'.op.name = "insert" /\ tourObj'.op.route # << >>
         /\ tourObj'.op.idx <= Len(tourObj.tour_segments))
        => /\ tourObj'.err = "none"
           /\ Len(tourObj'.tour_segments) = Len(tourObj.tour_segments) + 1
           /\ tourObj'.tour_segments[tourObj'.op.idx + 1] = Len(tourObj'.objects)
           /\ LinkedInList(tourObj', tourObj'.op.idx + 1) ]_vars

\* C36: as_dict() leaves the component with the attributes it had, among
\* them its resource, its occupants and its model, and the component can
\* be built again from the dictionary as_dict() returned
C36_AsDictRoundTrip ==
  [][ /\ compObj'.op = "as_dict"
        => /\ compObj'.attrs = compObj.attrs
           /\ {"_res", "_agents", "_model"} \subseteq DOMAIN compObj'.attrs
      /\ compObj'.op = "add_components_from_list"
        => compObj'.rebuilt \notin {"TypeError", "KeyError"} ]_vars

\* t holds a slot of the resource of the MultiBlockTrack, u the users of
\* the resources
AdmittedToBlocks(u, t) == \E c \in Comps : IsMultiBlock(c) /\ Contains(u[c], t)

\* C37: every train admitted to the MultiBlockTrack is in exactly one
\* block, on the track recorded for it; a block holds no train that is not
\* admitted; and no step replaces the train in a block by another train
C37_OneBlockPerAdmittedTrain ==
  [][ /\ \A t \in Trains :
           AdmittedToBlocks(users', t) =>
             /\ Cardinality(BlocksOf(t)') = 1
             /\ \A kb \in BlocksOf(t)' : kb[1] = trackAssignments'[t]
      /\ \A k \in 1..numTracks, b \in 1..NumBlocks :
           /\ blocks'[k][b] # NoAgent => AdmittedToBlocks(users', blocks'[k][b])
           /\ blocks[k][b] # NoAgent => blocks'[k][b] \in {NoAgent, blocks[k][b]} ]_vars

\* the tracks of the station that hold train t
TracksOf(t) ==
  { [kind |-> "S", index |-> i] : i \in { j \in DOMAIN stoppingTracks : stoppingTracks[j] = t } }
    \cup
  { [kind |-> "B", index |-> i] : i \in { j \in DOMAIN bypassTracks : bypassTracks[j] = t } }

\* C38: a train admitted to the MultiTrackStation is on exactly one track,
\* the one recorded for it, and a train that is not admitted, one that was
\* released among them, is on no track
C38_OneTrackPerAdmittedTrain ==
  \A t \in Trains, c \in Comps :
    IsMultiTrackStation(c) =>
      IF Contains(users[c], t)
      THEN TracksOf(t) = { stationAssign[t] }
      ELSE TracksOf(t) = {}

\* the do() of t is suspended on its waiting event
WaitsForBlock(t) == doLocal[t].wait = "waiting"

\* the block ahead of the block that the do() of t is in
BlockAhead(t) == << doLocal[t].track, doLocal[t].b + doLocal[t].dir >>

\* t is taken out of the MultiBlockTrack by its transfer to the next segment
ReleasedFromBlocks(t) ==
  /\ cur[t] # NoSeg /\ IsMultiBlock(SegComp(cur[t]))
  /\ pc[t] = "request" /\ pc'[t] # "request"
  /\ seg[t] # NoSeg /\ Contains(users[SegComp(seg[t])], t)

\* the time of the last IN record of t for component c
EnteredAt(t, c) ==
  CHOOSE x \in LogTimes(t, "IN", c) : \A y \in LogTimes(t, "IN", c) : y <= x

\* u runs through the blocks of the track from which t is released
FollowsOnTrack(u, t) ==
  /\ u # t
  /\ cur[u] # NoSeg /\ SegComp(cur[u]) = SegComp(cur[t])
  /\ pc[u] = "do"
  /\ doLocal[u].track = trackAssignments[t]

TourComps(T) ==
  UNION { { TourRoutes[T][r][i].component : i \in 1..Len(TourRoutes[T][r]) }
          : r \in 1..Len(TourRoutes[T]) }

\* Model.run() has returned without an exception, every train was admitted
\* to every component of its tour, its process has ended, it holds no
\* request, and no request is pending
RunCompleted ==
  /\ started /\ ~running /\ ~crashed
  /\ queue = << >>
  /\ \A t \in Fleet :
       /\ pc[t] = "done"
       /\ \A c \in TourComps(tourOf[t]) : LogTimes(t, "IN", c) # {}
       /\ \A c \in Comps : ~Contains(users[c], t)
  /\ \A c \in Comps : putQueue[c] = << >>

\* C40: when all trains follow the same tour over components without
\* collections and without arrival or departure times, a run without an
\* until bound can only stop with every train admitted to every segment,
\* the last request released, and no request left waiting; it does not
\* stop with an exception
C40_RunCompletes ==
  (started /\ (crashed \/ (~running /\ queue = << >>))) => RunCompleted

====
